---- MODULE Spec2Model ----
(***************************************************************************)
(* Transaction lifecycle engine of quai-transfer: nonce allocation,        *)
(* idempotent record creation, broadcast with error classification,        *)
(* receipt monitoring and batch aggregation (wallet/wallet.go, the         *)
(* transaction DAL and the two runTransfer commands).                      *)
(*                                                                         *)
(* A transaction is identified by its hash; the hash of a signed transfer  *)
(* is determined by (nonce, recipient, value), so it is modelled as that   *)
(* triple.  The store, the chain and the history variable `sent` survive   *)
(* a process exit; everything else is the memory of one process.           *)
(***************************************************************************)
EXTENDS Integers, Sequences, FiniteSets, TLC

\* ---------------------------------------------------------------- bounds
MaxId == 2          \* transfer ids 1..MaxId
MaxValue == 2       \* amounts 1..MaxValue
MaxRuns == 2        \* process runs on the same store
MaxFaults == 1      \* injected I/O faults (store, RPC) per behaviour
MaxInitNonce == 1   \* account nonce of the payer when the first run starts
NCallers == 2       \* concurrent GetNonce callers (SpecNonce)
MaxCalls == 3       \* GetNonce calls started by the callers (SpecNonce)
MaxNetNonce == 3    \* account nonce on the network (SpecNonce)
MaxInserts == 1     \* submissions registered by another goroutine (SpecTick)

\* ------------------------------------------------------ program constants
Generated == 0
Confirmed == 1
ReceiptStatusFailed == 0
ReceiptStatusSuccessful == 1
ReceiptMaxRetries == 30

\* ------------------------------------------------------------ input sets
Ids == 1..MaxId
Values == 1..MaxValue
Accts == {1}
Addrs == {"A", "bad"}
Entries == [id : Ids, acct : Accts, to : Addrs, value : Values]

\* The input lists: at least one data row, and ids unique within a list.
EntryLists ==
    {l \in UNION {[1..n -> Entries] : n \in 1..MaxId} :
        \A i, j \in DOMAIN l : i # j => l[i].id # l[j].id}

Main == 0
Callers == 1..NCallers
Threads == {Main} \cup Callers
Free == -1

NoTx == <<>>
TxHash(nonce, to, value) == <<nonce, to, value>>
TxNonce(h) == h[1]

\* ------------------------------------------------------------- variables
VARIABLES
    store,          \* transactions table: id -> [hash, status, entry]
    mempool,        \* hashes the node holds, not yet mined
    mined,          \* receipts: set of [hash, status]
    chainNonce,     \* account nonce: number of mined transactions
    maxLocalNonce,  \* Wallet.maxLocalNonce
    pendingNonces,  \* Wallet.pendingNonces
    nonceMutex,     \* Wallet.nonceMutex: Free or the holding thread
    pendingTxs,     \* Wallet.pendingTxs: set of [hash, i], keyed by hash
    pc,             \* thread -> position
    gn,             \* thread -> locals of GetNonce
    mode,           \* "batch" (ProcessBatchEntry) or "entry" (ProcessEntry)
    entries,        \* the input list of the current run
    idx,            \* position of the loop over entries
    cnt,            \* the counters of the loop and the summary
    cur,            \* signedTx of the entry being processed
    snap,           \* checkPendingTransactions: snapshot left to check
    chk,            \* pending transaction being checked
    retry,          \* WaitForReceipt.retry
    monCtx,         \* the monitor's timeout context: "none", "live", "done"
    callerDone,     \* the caller's context is cancelled
    runs,           \* process runs started
    faults,         \* I/O faults injected
    sent,           \* history: id -> hashes handed to SendTransaction
    hist,           \* history: per entry of the run, what happened to it
    mon,            \* history: facts about the monitor of this run
    prev,           \* history: how the previous run ended
    calls,          \* history: GetNonce calls of the callers, and the
                    \*   receipt queries of a caller's WaitForReceipt, in
                    \*   order of completion
    scanNotFound    \* the ORM's Scan reports ErrRecordNotFound when no row
                    \*   matches (fixed by the build)

chainVars == <<mempool, mined, chainNonce>>
ledgerVars == <<maxLocalNonce, pendingNonces>>
runVars == <<mode, entries, idx, cnt, cur>>
monVars == <<snap, chk, monCtx>>
vars == <<store, mempool, mined, chainNonce, maxLocalNonce, pendingNonces,
          nonceMutex, pendingTxs, pc, gn, mode, entries, idx, cnt, cur, snap,
          chk, retry, monCtx, callerDone, runs, faults, sent, hist, mon, prev,
          calls, scanNotFound>>

\* ------------------------------------------------------------- helpers
ZeroCnt == [invalid |-> 0, success |-> 0, failed |-> 0, processed |-> 0,
            unprocessed |-> 0]
NoGn == [pending |-> 0, nonce |-> 0, max |-> 0]
NoHist == [bucket |-> "none", bres |-> "none", err |-> "none",
           created |-> FALSE]
NoMon == [started |-> FALSE, k |-> 0, expiredAtStart |-> FALSE, found |-> 0,
          failedAtStart |-> 0, cancelK |-> -1, tickAfterCancel |-> FALSE,
          inserted |-> {}]
NoChk == [hash |-> NoTx, i |-> 0]
NoPrev == [full |-> FALSE, entries |-> <<>>]

IsValidQuaiAddress(a) == a = "A"

\* A comparison that leaves the amount out, to compare with CompareEntries.
CompareEntries_NoValue(a, b) ==
    /\ a.id = b.id
    /\ a.acct = b.acct
    /\ a.to = b.to

CompareEntries(a, b) ==
    /\ a.id = b.id
    /\ a.acct = b.acct
    /\ a.to = b.to
    /\ a.value = b.value

\* The node's pending nonce: the account nonce plus the run of consecutive
\* nonces waiting in the mempool.
RECURSIVE PendingFrom(_)
PendingFrom(n) ==
    IF \E h \in mempool : TxNonce(h) = n THEN PendingFrom(n + 1) ELSE n
NetPending == PendingFrom(chainNonce)

\* PendingNonceAt may answer from a node that lags behind.
PendingNonceAnswers == 0..NetPending

CanFault == faults < MaxFaults

Running == pc[Main] \notin {"idle", "done", "exited"}

\* -------------------------------------------------------------- the chain
\* What the node answers to SendTransaction, network failures aside.
ChainVerdict(h) ==
    IF h \in mempool THEN "known"
    ELSE IF TxNonce(h) < chainNonce THEN "low"
    ELSE IF \E g \in mempool : TxNonce(g) = TxNonce(h) THEN "fatal"
    ELSE "ok"

\* The chain mines the mempool transaction that carries the account nonce;
\* its execution succeeds or fails.
ChainMine ==
    /\ \E h \in mempool, st \in {ReceiptStatusFailed, ReceiptStatusSuccessful} :
        /\ TxNonce(h) = chainNonce
        /\ mined' = mined \cup {[hash |-> h, status |-> st]}
        /\ mempool' = mempool \ {h}
    /\ chainNonce' = chainNonce + 1
    /\ UNCHANGED <<store, maxLocalNonce, pendingNonces, nonceMutex, pendingTxs,
                   pc, gn, mode, entries, idx, cnt, cur, snap, chk, retry,
                   monCtx, callerDone, runs, scanNotFound, faults, sent, hist, mon, prev,
                   calls>>

HasReceipt(h) == \E r \in mined : r.hash = h
ReceiptOf(h) == CHOOSE r \in mined : r.hash = h

\* ------------------------------------------------------------------ Init
Init ==
    /\ store = [i \in {} |-> 0]
    /\ mempool = {}
    /\ mined = {}
    /\ chainNonce \in 0..MaxInitNonce
    /\ maxLocalNonce = 0
    /\ pendingNonces = {}
    /\ nonceMutex = Free
    /\ pendingTxs = {}
    /\ pc = [t \in Threads |-> "idle"]
    /\ gn = [t \in Threads |-> NoGn]
    /\ mode = "batch"
    /\ entries = <<>>
    /\ idx = 0
    /\ cnt = ZeroCnt
    /\ cur = NoTx
    /\ snap = {}
    /\ chk = NoChk
    /\ retry = 0
    /\ monCtx = "none"
    /\ callerDone = FALSE
    /\ runs = 0
    /\ faults = 0
    /\ sent = [id \in Ids |-> {}]
    /\ hist = <<>>
    /\ mon = NoMon
    /\ prev = NoPrev
    /\ calls = <<>>
    /\ scanNotFound \in BOOLEAN

\* A new process: NewWalletFromKey and initClient give an empty ledger and
\* an empty pending set.
FreshProcess(m, l) ==
    /\ maxLocalNonce' = 0
    /\ pendingNonces' = {}
    /\ nonceMutex' = Free
    /\ pendingTxs' = {}
    /\ gn' = [t \in Threads |-> NoGn]
    /\ mode' = m
    /\ entries' = l
    /\ cnt' = ZeroCnt
    /\ cur' = NoTx
    /\ snap' = {}
    /\ chk' = NoChk
    /\ retry' = 0
    /\ monCtx' = "none"
    /\ callerDone' = FALSE
    /\ hist' = [i \in DOMAIN l |-> NoHist]
    /\ mon' = NoMon

\* runTransfer: a process starts on a parsed list, with the store and the
\* chain as earlier runs left them.
Start(m) ==
    /\ ~Running
    /\ runs < MaxRuns
    /\ \E l \in EntryLists : FreshProcess(m, l)
    /\ idx' = 1
    /\ pc' = [pc EXCEPT ![Main] = "loop"]
    /\ runs' = runs + 1
    /\ UNCHANGED <<store, chainVars, faults, sent, prev, calls, scanNotFound>>

\* The batch command: ProcessBatchEntry on the list.
StartBatch == Start("batch")

\* The per-entry command: ProcessEntry on each entry of the list.
StartEntry == Start("entry")

\* The process stops at any point: its memory is lost.
Crash ==
    /\ Running
    /\ FreshProcess("batch", <<>>)
    /\ idx' = 0
    /\ pc' = [pc EXCEPT ![Main] = "idle"]
    /\ prev' = NoPrev
    /\ UNCHANGED <<store, chainVars, runs, scanNotFound, faults, sent, calls>>

\* The caller's context is cancelled.  The process looks at that context
\* only in the calls that take it and in the selects, so the step is taken
\* right before one of those; it counts as a disturbance like a fault.
CtxPoints == {"lookup", "gn_pending", "gn_wait", "sign", "persist",
              "broadcast", "wait", "checklow", "confirm", "wfr_query",
              "wfr_select"}

CancelCaller ==
    /\ \/ \E t \in Threads : pc[t] \in CtxPoints
       \/ pc[Main] = "check" /\ snap = {} /\ pendingTxs # {}
    /\ ~callerDone
    /\ faults < MaxFaults
    /\ faults' = faults + 1
    /\ callerDone' = TRUE
    /\ mon' = IF mon.started
              THEN [mon EXCEPT !.cancelK = Cardinality(pendingTxs)] ELSE mon
    /\ UNCHANGED <<store, chainVars, ledgerVars, nonceMutex, pendingTxs, pc,
                   gn, runVars, snap, chk, retry, monCtx, runs, scanNotFound, sent, hist,
                   prev, calls>>

\* ------------------------------------------------- end of one entry's turn
\* The loop body's bookkeeping after ProcessEntryAsync / ProcessEntry
\* returned (or the address was invalid), and `continue`.
Count(bucket) ==
    CASE bucket = "invalid" -> [cnt EXCEPT !.invalid = @ + 1]
      [] bucket = "skipped" -> [cnt EXCEPT !.processed = @ + 1]
      [] bucket = "failed" -> [cnt EXCEPT !.failed = @ + 1]
      [] bucket = "succeeded" -> [cnt EXCEPT !.success = @ + 1]
      [] OTHER -> cnt

EntryDone(bucket, err, bres) ==
    /\ hist' = [hist EXCEPT ![idx].bucket = bucket, ![idx].err = err,
                            ![idx].bres = bres]
    /\ cnt' = Count(bucket)
    /\ idx' = idx + 1
    /\ cur' = NoTx
    /\ pc' = [pc EXCEPT ![Main] = "loop"]
    /\ UNCHANGED <<mode, entries>>

\* An external call made with the caller's context fails once the context
\* is cancelled; otherwise it may fail by an injected fault.
Fails ==
    \/ callerDone /\ UNCHANGED faults
    \/ ~callerDone /\ CanFault /\ faults' = faults + 1

Works == ~callerDone /\ UNCHANGED faults

\* ------------------------------------------------------ ProcessBatchEntry
\* A loop that stops at the first entry that failed, to compare with the
\* range loop.
LoopEnded_Break ==
    \/ idx > Len(entries)
    \/ idx > 1 /\ hist[idx - 1].bucket = "failed"

\* for _, entry := range entries: the loop is over after the last entry.
LoopEnded == idx > Len(entries)

\* The head of the loop over the entries: address validation.
BatchLoop ==
    /\ pc[Main] = "loop"
    /\ mode = "batch"
    /\ IF LoopEnded
       THEN /\ pc' = [pc EXCEPT ![Main] = "mon_ctx"]
            /\ UNCHANGED <<runVars, hist>>
       ELSE IF ~IsValidQuaiAddress(entries[idx].to)
       THEN EntryDone("invalid", "address", "none")
       ELSE /\ pc' = [pc EXCEPT ![Main] = "lookup"]
            /\ UNCHANGED <<runVars, hist>>
    /\ UNCHANGED <<store, chainVars, ledgerVars, nonceMutex, pendingTxs, gn,
                   monVars, retry, callerDone, runs, scanNotFound, faults, sent, mon, prev,
                   calls>>

\* TransactionDAL.GetTransactionByID, I/O failures aside: the row, or for an
\* id without a row either nil (Scan reported ErrRecordNotFound) or a pointer
\* to the zero-valued record (Scan reported nothing), whose empty tx column
\* Wallet.GetTransactionByID cannot deserialize.
DalGetTransactionByID(id) ==
    IF id \in DOMAIN store THEN "row"
    ELSE IF scanNotFound THEN "nil"
    ELSE "zero"

\* A ProcessEntryAsync without the check for a Confirmed record, to compare
\* with AfterLookup.
AfterLookup_NoSkip(e) ==
    IF DalGetTransactionByID(e.id) = "zero"
    THEN EntryDone("failed", "deserialize", "none")
    ELSE IF DalGetTransactionByID(e.id) = "nil"
    THEN /\ pc' = [pc EXCEPT ![Main] = "gn_lock"]
         /\ UNCHANGED <<runVars, hist>>
    ELSE IF ~CompareEntries(e, store[e.id].entry)
    THEN EntryDone("failed", "mismatch", "none")
    ELSE /\ cur' = store[e.id].hash
         /\ pc' = [pc EXCEPT ![Main] =
                        IF mode = "batch" THEN "register" ELSE "broadcast"]
         /\ UNCHANGED <<mode, entries, idx, cnt, hist>>

\* A ProcessEntryAsync that builds a new transaction although a matching
\* record is stored, to compare with AfterLookup.
AfterLookup_Rebuild(e) ==
    IF DalGetTransactionByID(e.id) = "zero"
    THEN EntryDone("failed", "deserialize", "none")
    ELSE IF DalGetTransactionByID(e.id) = "nil"
    THEN /\ pc' = [pc EXCEPT ![Main] = "gn_lock"]
         /\ UNCHANGED <<runVars, hist>>
    ELSE IF store[e.id].status = Confirmed
    THEN EntryDone("skipped", "already", "none")
    ELSE IF ~CompareEntries(e, store[e.id].entry)
    THEN EntryDone("failed", "mismatch", "none")
    ELSE /\ pc' = [pc EXCEPT ![Main] = "gn_lock"]
         /\ UNCHANGED <<runVars, hist>>

\* ProcessEntryAsync / ProcessEntry, up to the choice between the stored
\* transaction and a new one.
AfterLookup(e) ==
    IF DalGetTransactionByID(e.id) = "zero"
    THEN EntryDone("failed", "deserialize", "none")
    ELSE IF DalGetTransactionByID(e.id) = "nil"
    THEN /\ pc' = [pc EXCEPT ![Main] = "gn_lock"]
         /\ UNCHANGED <<runVars, hist>>
    ELSE IF store[e.id].status = Confirmed
    THEN EntryDone("skipped", "already", "none")
    ELSE IF ~CompareEntries(e, store[e.id].entry)
    THEN EntryDone("failed", "mismatch", "none")
    ELSE /\ cur' = store[e.id].hash
         /\ pc' = [pc EXCEPT ![Main] =
                        IF mode = "batch" THEN "register" ELSE "broadcast"]
         /\ UNCHANGED <<mode, entries, idx, cnt, hist>>

GetTransactionByID ==
    /\ pc[Main] = "lookup"
    /\ \/ Fails /\ EntryDone("failed", "lookup", "none")
       \/ Works /\ AfterLookup(entries[idx])
    /\ UNCHANGED <<store, chainVars, ledgerVars, nonceMutex, pendingTxs, gn,
                   monVars, retry, callerDone, runs, scanNotFound, sent, mon, prev, calls>>

\* ---------------------------------------------------------------- GetNonce
\* GetNonce, for the main thread (called by CreateTransaction) and for the
\* concurrent callers.  The mutex is held from the first line to the return.
GetNonce_Lock(t) ==
    /\ pc[t] = "gn_lock"
    /\ nonceMutex = Free
    /\ nonceMutex' = t
    /\ pc' = [pc EXCEPT ![t] = "gn_pending"]
    /\ UNCHANGED <<store, chainVars, ledgerVars, pendingTxs, gn, runVars,
                   monVars, retry, callerDone, runs, scanNotFound, faults, sent, hist, mon,
                   prev, calls>>

\* What the caller of GetNonce does with the result.
GetNonce_Return(t, ok) ==
    /\ nonceMutex' = Free
    /\ IF t = Main
       THEN /\ IF ok
               THEN /\ pc' = [pc EXCEPT ![t] = "sign"]
                    /\ UNCHANGED <<runVars, hist>>
               ELSE EntryDone("failed", "nonce", "none")
            /\ UNCHANGED calls
       ELSE /\ pc' = [pc EXCEPT ![t] = "idle"]
            /\ calls' = Append(calls, [t |-> t, ok |-> ok,
                                       nonce |-> IF ok THEN gn[t].nonce ELSE 0,
                                       pending |-> gn[t].pending])
            /\ UNCHANGED <<runVars, hist>>

\* pendingNonce, err := w.client.PendingNonceAt(ctx, ...)
GetNonce_PendingNonceAt(t) ==
    /\ pc[t] = "gn_pending"
    /\ \/ /\ Fails
          /\ GetNonce_Return(t, FALSE)
          /\ UNCHANGED gn
       \/ /\ Works
          /\ \E n \in PendingNonceAnswers :
                gn' = [gn EXCEPT ![t] = [pending |-> n, nonce |-> 0, max |-> 0]]
          /\ pc' = [pc EXCEPT ![t] = "gn_compute"]
          /\ UNCHANGED <<nonceMutex, runVars, hist, calls>>
    /\ UNCHANGED <<store, chainVars, ledgerVars, pendingTxs, monVars, retry,
                   callerDone, runs, scanNotFound, sent, mon, prev>>

\* A GetNonce that trusts the node's answer alone, to compare with NextNonce.
NextNonce_Network(pendingNonce, maxLocal) == pendingNonce

\* A GetNonce that counts locally and never looks at the node's answer, to
\* compare with NextNonce.
NextNonce_Local(pendingNonce, maxLocal) == maxLocal + 1

\* The comparison without the equal case, to compare with NextNonce.
NextNonce_Strict(pendingNonce, maxLocal) ==
    IF maxLocal > pendingNonce THEN maxLocal + 1 ELSE pendingNonce

\* Use the larger of pendingNonce and maxLocalNonce + 1.
NextNonce(pendingNonce, maxLocal) ==
    IF maxLocal >= pendingNonce THEN maxLocal + 1 ELSE pendingNonce

GetNonce_Compute(t) ==
    /\ pc[t] = "gn_compute"
    /\ gn' = [gn EXCEPT ![t].nonce = NextNonce(gn[t].pending, maxLocalNonce),
                        ![t].max = maxLocalNonce]
    /\ pc' = [pc EXCEPT ![t] = "gn_store"]
    /\ UNCHANGED <<store, chainVars, ledgerVars, nonceMutex, pendingTxs,
                   runVars, monVars, retry, callerDone, runs, scanNotFound, faults, sent,
                   hist, mon, prev, calls>>

\* w.maxLocalNonce = nonce; w.pendingNonces[nonce] = true
GetNonce_Store(t) ==
    /\ pc[t] = "gn_store"
    /\ maxLocalNonce' = gn[t].nonce
    /\ pendingNonces' = pendingNonces \cup {gn[t].nonce}
    /\ pc' = [pc EXCEPT ![t] = "gn_wait"]
    /\ UNCHANGED <<store, chainVars, nonceMutex, pendingTxs, gn, runVars,
                   monVars, retry, callerDone, runs, scanNotFound, faults, sent, hist, mon,
                   prev, calls>>

\* select { case <-ctx.Done(): ...; case <-time.After(NonceWaitTime): }
GetNonce_Wait(t) ==
    /\ pc[t] = "gn_wait"
    /\ GetNonce_Return(t, ~callerDone)
    /\ UNCHANGED <<store, chainVars, ledgerVars, pendingTxs, gn, monVars,
                   retry, callerDone, runs, scanNotFound, faults, sent, mon, prev>>

\* A cleanupConfirmedNonces that does not take the mutex, to compare with
\* cleanupConfirmedNonces.
cleanupConfirmedNonces_NoLock(nonce) ==
    /\ pendingNonces' = pendingNonces \ {nonce}
    /\ UNCHANGED <<maxLocalNonce, nonceMutex>>

\* cleanupConfirmedNonces: lock, delete, unlock.
cleanupConfirmedNonces(nonce) ==
    /\ nonceMutex = Free
    /\ pendingNonces' = pendingNonces \ {nonce}
    /\ UNCHANGED <<maxLocalNonce, nonceMutex>>

\* ------------------------------------------------------- CreateTransaction
\* SuggestGasPrice, NewTx, SignTx and the two json.Marshal calls.
CreateTransaction_Sign ==
    /\ pc[Main] = "sign"
    /\ \/ Fails /\ EntryDone("failed", "sign", "none")
       \/ /\ Works
          /\ cur' = TxHash(gn[Main].nonce, entries[idx].to, entries[idx].value)
          /\ pc' = [pc EXCEPT ![Main] = "persist"]
          /\ UNCHANGED <<mode, entries, idx, cnt, hist>>
    /\ UNCHANGED <<store, chainVars, ledgerVars, nonceMutex, pendingTxs, gn,
                   monVars, retry, callerDone, runs, scanNotFound, sent, mon, prev, calls>>

\* TransactionDAL.CreateTransaction: the primary key on id and the unique
\* index on tx_hash reject a duplicate.
DalCreateOk(id, h) ==
    /\ id \notin DOMAIN store
    /\ \A j \in DOMAIN store : store[j].hash # h

\* A CreateTransaction that hands the signed transaction back whatever the
\* insert returned, to compare with AfterCreate.
AfterCreate_Ignore(ok) == IF mode = "batch" THEN "register" ELSE "broadcast"

\* What CreateTransaction does after the insert: on an error nothing is
\* handed back to be broadcast.
AfterCreate(ok) == IF ok THEN (IF mode = "batch" THEN "register" ELSE "broadcast")
                   ELSE "failed"

CreateTransaction_Persist ==
    /\ pc[Main] = "persist"
    /\ \/ /\ Fails
          /\ UNCHANGED store
          /\ IF AfterCreate(FALSE) = "failed"
             THEN EntryDone("failed", "create", "none")
             ELSE /\ pc' = [pc EXCEPT ![Main] = AfterCreate(FALSE)]
                  /\ UNCHANGED <<runVars, hist>>
       \/ /\ Works
          /\ LET e == entries[idx]
                 ok == DalCreateOk(e.id, cur)
             IN /\ store' = IF ok
                            THEN store @@ (e.id :> [hash |-> cur,
                                                    status |-> Generated,
                                                    entry |-> e])
                            ELSE store
                /\ IF AfterCreate(ok) = "failed"
                   THEN EntryDone("failed", "duplicate", "none")
                   ELSE /\ pc' = [pc EXCEPT ![Main] = AfterCreate(ok)]
                        /\ hist' = [hist EXCEPT ![idx].created = ok]
                        /\ UNCHANGED runVars
    /\ UNCHANGED <<chainVars, ledgerVars, nonceMutex, pendingTxs, gn, monVars,
                   retry, callerDone, runs, scanNotFound, sent, mon, prev, calls>>

\* ------------------------------------------------ ProcessEntryAsync, cont.
PendingPut(p, h, i) == {x \in p : x.hash # h} \cup {[hash |-> h, i |-> i]}
\* A map whose delete does nothing, to compare with PendingDelete.
PendingDelete_Keep(p, h) == p

\* A delete that empties the map, to compare with PendingDelete.
PendingDelete_Clear(p, h) == {}

PendingDelete(p, h) == {x \in p : x.hash # h}

\* w.pendingTxs[signedTx.Hash()] = &PendingTx{Tx: signedTx, Entry: entry}
ProcessEntryAsync_Register ==
    /\ pc[Main] = "register"
    /\ pendingTxs' = PendingPut(pendingTxs, cur, idx)
    /\ pc' = [pc EXCEPT ![Main] = "broadcast"]
    /\ UNCHANGED <<store, chainVars, ledgerVars, nonceMutex, gn, runVars,
                   monVars, retry, callerDone, runs, scanNotFound, faults, sent, hist, mon,
                   prev, calls>>

\* BroadcastTransaction: the node's verdict, or a failure of the call.
Send(h, r) ==
    /\ sent' = [sent EXCEPT ![entries[idx].id] = @ \cup {h}]
    /\ mempool' = IF r = "ok" THEN mempool \cup {h} ELSE mempool
    /\ UNCHANGED <<mined, chainNonce>>

BroadcastTransaction(h, r) ==
    \/ Fails /\ r = "fatal" /\ Send(h, r)
    \/ Works /\ r = ChainVerdict(h) /\ Send(h, r)

\* A ProcessEntryAsync that treats every broadcast error as not serious, to
\* compare with ClassifyAsync.
ClassifyAsync_Lenient(r) == "queued"

\* The error classification of ProcessEntryAsync.
ClassifyAsync(r) ==
    IF r \notin {"ok", "low", "known"} THEN "failed" ELSE "queued"

ProcessEntryAsync_Broadcast ==
    /\ pc[Main] = "broadcast"
    /\ mode = "batch"
    /\ \E r \in {"ok", "low", "known", "fatal"} :
        /\ BroadcastTransaction(cur, r)
        /\ IF ClassifyAsync(r) = "failed"
           THEN /\ pendingTxs' = PendingDelete(pendingTxs, cur)
                /\ EntryDone("failed", "broadcast", r)
           ELSE /\ UNCHANGED pendingTxs
                /\ EntryDone("queued", "none", r)
    /\ UNCHANGED <<store, ledgerVars, nonceMutex, gn, monVars, retry,
                   callerDone, runs, scanNotFound, mon, prev, calls>>

\* ------------------------------------------------------ the receipt monitor
\* ctx, cancel := context.WithTimeout(context.Background(), 10*time.Minute)
ProcessBatchEntry_Context ==
    /\ pc[Main] = "mon_ctx"
    /\ monCtx' = "live"
    /\ pc' = [pc EXCEPT ![Main] = "mon_start"]
    /\ UNCHANGED <<store, chainVars, ledgerVars, nonceMutex, pendingTxs, gn,
                   runVars, snap, chk, retry, callerDone, runs, scanNotFound, faults, sent,
                   hist, mon, prev, calls>>

\* The monitor's deadline passes.
MonitorDeadline ==
    /\ monCtx = "live"
    /\ Running
    /\ monCtx' = "done"
    /\ UNCHANGED <<store, chainVars, ledgerVars, nonceMutex, pendingTxs, pc,
                   gn, runVars, snap, chk, retry, callerDone, runs, scanNotFound, faults,
                   sent, hist, mon, prev, calls>>

\* MonitorAllTransactions: the ticker is created and the pending set is
\* checked once, whatever the state of the context (the snapshot of
\* checkPendingTransactions is taken).
MonitorAllTransactions_Start ==
    /\ pc[Main] = "mon_start"
    /\ snap' = pendingTxs
    /\ mon' = [mon EXCEPT !.started = TRUE,
                          !.k = Cardinality(pendingTxs),
                          !.expiredAtStart = (monCtx = "done"),
                          !.failedAtStart = cnt.failed]
    /\ pc' = [pc EXCEPT ![Main] = "check"]
    /\ UNCHANGED <<store, chainVars, ledgerVars, nonceMutex, pendingTxs, gn,
                   runVars, chk, monCtx, retry, callerDone, runs, scanNotFound, faults, sent,
                   hist, prev, calls>>

\* A CheckTransactionAndConfirm that releases the nonce without having
\* written the receipt to the store, to compare with UpdateTransactionStatus.
UpdateTransactionStatus_Skip(h, receipt) == store

\* TransactionDAL.UpdateTransactionStatus: the row with this tx_hash gets
\* "status": receipt.Status; no matching row is not an error.
UpdateTransactionStatus(h, receipt) ==
    [id \in DOMAIN store |->
        IF store[id].hash = h
        THEN [store[id] EXCEPT !.status = receipt.status]
        ELSE store[id]]

\* A checkPendingTransactions that gives up a submission whose check
\* returned an error, to compare with AfterReceiptError.
AfterReceiptError_Drop(p) == PendingDelete(pendingTxs, p.hash)

\* checkPendingTransactions when CheckTransactionAndConfirm returned an
\* error: nothing is done, the map keeps the submission.
AfterReceiptError(p) == pendingTxs

\* checkPendingTransactions, one element of the snapshot:
\* CheckTransactionAndConfirm (with context.Background()) up to its store
\* update.
CheckTransactionAndConfirm ==
    /\ pc[Main] = "check"
    /\ \E p \in snap :
        /\ snap' = snap \ {p}
        /\ \/ /\ ~HasReceipt(p.hash)
              /\ pendingTxs' = AfterReceiptError(p)
              /\ UNCHANGED <<store, chk, pc, faults>>
           \/ /\ HasReceipt(p.hash)
              /\ CanFault
              /\ faults' = faults + 1
              /\ pendingTxs' = AfterReceiptError(p)
              /\ UNCHANGED <<store, chk, pc>>
           \/ /\ HasReceipt(p.hash)
              /\ store' = UpdateTransactionStatus(p.hash, ReceiptOf(p.hash))
              /\ chk' = p
              /\ pc' = [pc EXCEPT ![Main] = "cleanup"]
              /\ UNCHANGED <<faults, pendingTxs>>
    /\ UNCHANGED <<chainVars, ledgerVars, nonceMutex, gn, runVars,
                   monCtx, retry, callerDone, runs, scanNotFound, sent, hist, mon, prev,
                   calls>>

\* w.cleanupConfirmedNonces(tx.Nonce())
CheckTransactionAndConfirm_Cleanup ==
    /\ pc[Main] = "cleanup"
    /\ cleanupConfirmedNonces(TxNonce(chk.hash))
    /\ pc' = [pc EXCEPT ![Main] = "delete"]
    /\ UNCHANGED <<store, chainVars, pendingTxs, gn, runVars, monVars, retry,
                   callerDone, runs, scanNotFound, faults, sent, hist, mon, prev, calls>>

\* err == nil: delete(w.pendingTxs, pendingTx.Tx.Hash())
checkPendingTransactions_Delete ==
    /\ pc[Main] = "delete"
    /\ pendingTxs' = PendingDelete(pendingTxs, chk.hash)
    /\ hist' = IF chk.i \in DOMAIN hist
               THEN [hist EXCEPT ![chk.i].bucket = "succeeded"]
               ELSE hist
    /\ mon' = [mon EXCEPT !.found = @ + 1]
    /\ chk' = NoChk
    /\ pc' = [pc EXCEPT ![Main] = "check"]
    /\ UNCHANGED <<store, chainVars, ledgerVars, nonceMutex, gn, runVars, snap,
                   monCtx, retry, callerDone, runs, scanNotFound, faults, sent, prev, calls>>

\* A monitor that returns the size the map had when it started, to compare
\* with MonitorResult.
MonitorResult_AtStart == mon.k

\* What MonitorAllTransactions returns when it returns at this pass of its
\* loop: 0 with an empty map, else the size of the map at ctx.Done().
MonitorResult == IF pendingTxs = {} THEN 0 ELSE Cardinality(pendingTxs)

\* A summary that forgets the skipped entries, to compare with SuccessCnt.
SuccessCnt_NoSkipped(unprocessedCount) ==
    Len(entries) - cnt.invalid - cnt.failed - unprocessedCount

\* successCnt = len(entries) - invalidCnt - failedCnt - processedCnt
\*              - unprocessedCount
SuccessCnt(unprocessedCount) ==
    Len(entries) - cnt.invalid - cnt.failed - cnt.processed - unprocessedCount

FullyConfirmed ==
    \A i \in DOMAIN entries :
        IsValidQuaiAddress(entries[i].to) => hist[i].bucket = "succeeded"

\* The loop of MonitorAllTransactions after a pass over the snapshot, and the
\* summary of ProcessBatchEntry when it returns.
MonitorAllTransactions_Return ==
    /\ pc[Main] = "check"
    /\ snap = {}
    /\ pendingTxs = {} \/ monCtx = "done"
    /\ cnt' = [cnt EXCEPT !.unprocessed = MonitorResult,
                          !.success = SuccessCnt(MonitorResult)]
    /\ prev' = IF FullyConfirmed THEN [full |-> TRUE, entries |-> entries]
               ELSE NoPrev
    /\ pc' = [pc EXCEPT ![Main] = "done"]
    /\ UNCHANGED <<store, chainVars, ledgerVars, nonceMutex, pendingTxs, gn,
                   mode, entries, idx, cur, monVars, retry, callerDone, runs, scanNotFound,
                   faults, sent, hist, mon, calls>>

\* case <-ticker.C: w.checkPendingTransactions()
MonitorAllTransactions_Tick ==
    /\ pc[Main] = "check"
    /\ snap = {}
    /\ pendingTxs # {}
    /\ snap' = pendingTxs
    /\ mon' = [mon EXCEPT !.tickAfterCancel = @ \/ (mon.cancelK >= 0)]
    /\ UNCHANGED <<store, chainVars, ledgerVars, nonceMutex, pendingTxs, pc,
                   gn, runVars, chk, monCtx, retry, callerDone, runs, scanNotFound, faults,
                   sent, hist, prev, calls>>

\* The accesses the next step of the batch run makes to w.pendingTxs or to
\* the chain's receipts, each with the mode in which pendingTxMutex is held
\* at that point of the code.
PendingTxAccesses ==
    CASE pc[Main] = "register" ->
            {[op |-> "insert", held |-> "Lock"]}
      [] pc[Main] = "broadcast" /\ mode = "batch" ->
            {[op |-> "delete", held |-> "Lock"]}
      [] pc[Main] = "mon_start" ->
            {[op |-> "range", held |-> "RLock"]}
      [] pc[Main] = "check" /\ snap # {} ->
            {[op |-> "receipt", held |-> "none"]}
      [] pc[Main] = "check" /\ snap = {} /\ pendingTxs = {} ->
            {[op |-> "len", held |-> "none"]}
      [] pc[Main] = "check" /\ snap = {} /\ pendingTxs # {} ->
            {[op |-> "len", held |-> "none"],
             [op |-> "len", held |-> "RLock"],
             [op |-> "range", held |-> "RLock"]}
      [] pc[Main] = "delete" ->
            {[op |-> "delete", held |-> "Lock"]}
      [] OTHER -> {}

\* ------------------------------------------- the per-entry command (entry)
\* runTransfer of cmd/transfer.go: the loop over the entries.  An invalid
\* address ends the process (log.Fatalf); the end of the list prints the
\* totals.
EntryLoop ==
    /\ pc[Main] = "loop"
    /\ mode = "entry"
    /\ IF LoopEnded
       THEN /\ pc' = [pc EXCEPT ![Main] = "done"]
            /\ UNCHANGED <<runVars, hist>>
       ELSE IF ~IsValidQuaiAddress(entries[idx].to)
       THEN /\ hist' = [hist EXCEPT ![idx].bucket = "invalid",
                                    ![idx].err = "address"]
            /\ cnt' = Count("invalid")
            /\ pc' = [pc EXCEPT ![Main] = "exited"]
            /\ UNCHANGED <<mode, entries, idx, cur>>
       ELSE /\ pc' = [pc EXCEPT ![Main] = "lookup"]
            /\ UNCHANGED <<runVars, hist>>
    /\ UNCHANGED <<store, chainVars, ledgerVars, nonceMutex, pendingTxs, gn,
                   monVars, retry, callerDone, runs, scanNotFound, faults, sent, mon, prev,
                   calls>>

\* The error classification of ProcessEntry.
ClassifyEntry(r) ==
    CASE r = "ok" -> "wait"
      [] r = "low" -> "checklow"
      [] r = "known" -> "wait"
      [] OTHER -> "failed"

ProcessEntry_Broadcast ==
    /\ pc[Main] = "broadcast"
    /\ mode = "entry"
    /\ \E r \in {"ok", "low", "known", "fatal"} :
        /\ BroadcastTransaction(cur, r)
        /\ IF ClassifyEntry(r) = "failed"
           THEN EntryDone("failed", "broadcast", r)
           ELSE /\ hist' = [hist EXCEPT ![idx].bres = r]
                /\ pc' = [pc EXCEPT ![Main] = ClassifyEntry(r)]
                /\ UNCHANGED runVars
    /\ retry' = 0
    /\ UNCHANGED <<store, ledgerVars, nonceMutex, pendingTxs, gn, monVars,
                   callerDone, runs, scanNotFound, mon, prev, calls>>

\* WaitForReceipt, one pass of its loop.
WaitForReceipt ==
    /\ pc[Main] = "wait"
    /\ IF HasReceipt(cur) /\ ~callerDone
       THEN /\ pc' = [pc EXCEPT ![Main] = "confirm"]
            /\ UNCHANGED <<runVars, hist, retry>>
       ELSE /\ retry' = retry + 1
            /\ IF retry + 1 >= ReceiptMaxRetries
               THEN EntryDone("failed", "timeout", hist[idx].bres)
               ELSE IF callerDone
               THEN EntryDone("failed", "ctx", hist[idx].bres)
               ELSE UNCHANGED <<runVars, hist, pc>>
    /\ UNCHANGED <<store, chainVars, ledgerVars, nonceMutex, pendingTxs, gn,
                   monVars, callerDone, runs, scanNotFound, faults, sent, mon, prev, calls>>

\* case "nonce too low": CheckTransactionAndConfirm, its receipt query.
ProcessEntry_CheckLow ==
    /\ pc[Main] = "checklow"
    /\ IF HasReceipt(cur) /\ ~callerDone
       THEN /\ pc' = [pc EXCEPT ![Main] = "confirm"]
            /\ UNCHANGED <<runVars, hist>>
       ELSE EntryDone("failed", IF callerDone THEN "ctx" ELSE "receipt",
                      hist[idx].bres)
    /\ UNCHANGED <<store, chainVars, ledgerVars, nonceMutex, pendingTxs, gn,
                   monVars, retry, callerDone, runs, scanNotFound, faults, sent, mon, prev,
                   calls>>

\* MonitorAndConfirmTransaction / CheckTransactionAndConfirm after the
\* receipt was found: the store update with the caller's context.
ConfirmTransaction_Update ==
    /\ pc[Main] = "confirm"
    /\ \/ /\ Fails
          /\ EntryDone("failed", "update", hist[idx].bres)
          /\ UNCHANGED store
       \/ /\ Works
          /\ store' = UpdateTransactionStatus(cur, ReceiptOf(cur))
          /\ pc' = [pc EXCEPT ![Main] = "cleanup_e"]
          /\ UNCHANGED <<runVars, hist>>
    /\ UNCHANGED <<chainVars, ledgerVars, nonceMutex, pendingTxs, gn, monVars,
                   retry, callerDone, runs, scanNotFound, sent, mon, prev, calls>>

ConfirmTransaction_Cleanup ==
    /\ pc[Main] = "cleanup_e"
    /\ cleanupConfirmedNonces(TxNonce(cur))
    /\ EntryDone("succeeded", "none", hist[idx].bres)
    /\ UNCHANGED <<store, chainVars, pendingTxs, gn, monVars, retry,
                   callerDone, runs, scanNotFound, faults, sent, mon, prev, calls>>

\* ------------------------------------------------------------- SendQuai
\* main: a process that makes one call of SendQuai (recipient and amount
\* are those of the list's only entry) and ends.
StartSend == Start("send") /\ Len(entries') = 1

SendQuai_Call ==
    /\ pc[Main] = "loop"
    /\ mode = "send"
    /\ pc' = [pc EXCEPT ![Main] = IF LoopEnded THEN "done" ELSE "gn_lock"]
    /\ UNCHANGED <<store, chainVars, ledgerVars, nonceMutex, pendingTxs, gn,
                   runVars, monVars, retry, callerDone, runs, scanNotFound,
                   faults, sent, hist, mon, prev, calls>>

\* The record of SendQuai carries no ID: the table assigns the next one.
NextRecordID ==
    IF DOMAIN store = {} THEN 1
    ELSE (CHOOSE m \in DOMAIN store : \A j \in DOMAIN store : j <= m) + 1

\* The record of SendQuai has an empty entry column.
NoEntry == [id |-> 0, acct |-> 0, to |-> "", value |-> 0]

\* w.txDAL.CreateTransaction(ctx, txRecord) in SendQuai: an error returns
\* before the broadcast.
SendQuai_Persist ==
    /\ pc[Main] = "persist"
    /\ mode = "send"
    /\ \/ /\ Fails
          /\ UNCHANGED store
          /\ EntryDone("failed", "create", "none")
       \/ /\ Works
          /\ IF \A j \in DOMAIN store : store[j].hash # cur
             THEN /\ store' = store @@ (NextRecordID :>
                                   [hash |-> cur, status |-> Generated,
                                    entry |-> NoEntry])
                  /\ pc' = [pc EXCEPT ![Main] = "broadcast"]
                  /\ hist' = [hist EXCEPT ![idx].created = TRUE]
                  /\ UNCHANGED runVars
             ELSE /\ UNCHANGED store
                  /\ EntryDone("failed", "duplicate", "none")
    /\ UNCHANGED <<chainVars, ledgerVars, nonceMutex, pendingTxs, gn, monVars,
                   retry, callerDone, runs, scanNotFound, sent, mon, prev,
                   calls>>

\* w.BroadcastTransaction(ctx, signedTx) in SendQuai: every error is
\* returned.
SendQuai_Broadcast ==
    /\ pc[Main] = "broadcast"
    /\ mode = "send"
    /\ \E r \in {"ok", "low", "known", "fatal"} :
        /\ BroadcastTransaction(cur, r)
        /\ IF r = "ok"
           THEN /\ hist' = [hist EXCEPT ![idx].bres = r]
                /\ pc' = [pc EXCEPT ![Main] = "wait"]
                /\ UNCHANGED runVars
           ELSE EntryDone("failed", "broadcast", r)
    /\ retry' = 0
    /\ UNCHANGED <<store, ledgerVars, nonceMutex, pendingTxs, gn, monVars,
                   callerDone, runs, scanNotFound, mon, prev, calls>>

\* MonitorAndConfirmTransaction(context.Background(), signedTx): one pass of
\* the loop of WaitForReceipt.
SendQuai_WaitForReceipt ==
    /\ pc[Main] = "wait"
    /\ mode = "send"
    /\ IF HasReceipt(cur)
       THEN /\ pc' = [pc EXCEPT ![Main] = "confirm"]
            /\ UNCHANGED <<runVars, hist, retry>>
       ELSE /\ retry' = retry + 1
            /\ IF retry + 1 >= ReceiptMaxRetries
               THEN EntryDone("failed", "timeout", hist[idx].bres)
               ELSE UNCHANGED <<runVars, hist, pc>>
    /\ UNCHANGED <<store, chainVars, ledgerVars, nonceMutex, pendingTxs, gn,
                   monVars, callerDone, runs, scanNotFound, faults, sent, mon,
                   prev, calls>>

\* MonitorAndConfirmTransaction after the receipt: the store update, then
\* the release of the nonce.
SendQuai_Confirm ==
    /\ pc[Main] = "confirm"
    /\ mode = "send"
    /\ \/ /\ CanFault
          /\ faults' = faults + 1
          /\ EntryDone("failed", "update", hist[idx].bres)
          /\ UNCHANGED <<store, ledgerVars, nonceMutex>>
       \/ /\ store' = UpdateTransactionStatus(cur, ReceiptOf(cur))
          /\ cleanupConfirmedNonces(TxNonce(cur))
          /\ EntryDone("succeeded", "none", hist[idx].bres)
          /\ UNCHANGED faults
    /\ UNCHANGED <<chainVars, pendingTxs, gn, monVars, retry, callerDone,
                   runs, scanNotFound, sent, mon, prev, calls>>

\* ------------------------------------------- concurrent callers of GetNonce
CallsStarted == Len(calls) + Cardinality({t \in Callers : pc[t] # "idle"})

CallGetNonce(t) ==
    /\ pc[t] = "idle"
    /\ CallsStarted < MaxCalls
    /\ pc' = [pc EXCEPT ![t] = "gn_lock"]
    /\ UNCHANGED <<store, chainVars, ledgerVars, nonceMutex, pendingTxs, gn,
                   runVars, monVars, retry, callerDone, runs, scanNotFound, faults, sent,
                   hist, mon, prev, calls>>

\* A caller releases a nonce it was given.
CallCleanup(t) ==
    /\ pc[t] = "idle"
    /\ \E c \in 1..Len(calls) :
        /\ calls[c].t = t
        /\ calls[c].ok
        /\ calls[c].nonce \in pendingNonces
        /\ cleanupConfirmedNonces(calls[c].nonce)
    /\ UNCHANGED <<store, chainVars, pendingTxs, pc, gn, runVars, monVars,
                   retry, callerDone, runs, scanNotFound, faults, sent, hist, mon, prev,
                   calls>>

\* A caller asks for the release of a nonce it was given:
\* cleanupConfirmedNonces is called and waits for nonceMu.
ReleaseRequest(t) ==
    /\ pc[t] = "idle"
    /\ \E c \in 1..Len(calls) :
        /\ calls[c].t = t
        /\ calls[c].ok
        /\ calls[c].nonce \in pendingNonces
    /\ pc' = [pc EXCEPT ![t] = "cl_lock"]
    /\ UNCHANGED <<store, chainVars, ledgerVars, nonceMutex, pendingTxs, gn,
                   runVars, monVars, retry, callerDone, runs, scanNotFound,
                   faults, sent, hist, mon, prev, calls>>

\* The waiting cleanupConfirmedNonces gets the mutex, deletes and unlocks.
ReleaseApply(t) ==
    /\ pc[t] = "cl_lock"
    /\ \E c \in 1..Len(calls) :
        /\ calls[c].t = t
        /\ calls[c].ok
        /\ calls[c].nonce \in pendingNonces
        /\ cleanupConfirmedNonces(calls[c].nonce)
    /\ pc' = [pc EXCEPT ![t] = "idle"]
    /\ UNCHANGED <<store, chainVars, pendingTxs, gn, runVars, monVars,
                   retry, callerDone, runs, scanNotFound, faults, sent, hist,
                   mon, prev, calls>>

\* Another holder of the account's key gets a transaction mined.
ExternalTx ==
    /\ chainNonce < MaxNetNonce
    /\ mempool = {}
    /\ chainNonce' = chainNonce + 1
    /\ UNCHANGED <<store, mempool, mined, ledgerVars, nonceMutex, pendingTxs,
                   pc, gn, runVars, monVars, retry, callerDone, runs, scanNotFound, faults,
                   sent, hist, mon, prev, calls>>

\* ------------------------------------------------- other users of the store
\* Another run of the command, sharing the store, processes the same
\* never-seen id at the same time: its lookup returned absent as ours did,
\* and its CreateTransaction inserts the record first.  It is a fresh process
\* (no local nonce yet) signing with the nonce the node reports.
OtherRunCreate ==
    /\ pc[Main] \in {"gn_lock", "gn_pending", "gn_compute", "gn_store",
                     "gn_wait", "sign", "persist"}
    /\ CanFault
    /\ faults' = faults + 1
    /\ LET e == entries[idx]
           h == TxHash(NextNonce(NetPending, 0), e.to, e.value)
       IN /\ DalCreateOk(e.id, h)
          /\ store' = store @@ (e.id :> [hash |-> h, status |-> Generated,
                                         entry |-> e])
    /\ UNCHANGED <<chainVars, ledgerVars, nonceMutex, pendingTxs, pc, gn,
                   runVars, monVars, retry, callerDone, runs, scanNotFound,
                   sent, hist, mon, prev, calls>>

\* The row of a mined transaction the monitor is about to look at is removed
\* from the table by someone else.
StoreRowLost ==
    /\ pc[Main] = "check"
    /\ CanFault
    /\ faults' = faults + 1
    /\ \E id \in DOMAIN store :
        /\ \E p \in snap : p.hash = store[id].hash /\ HasReceipt(p.hash)
        /\ store' = [j \in DOMAIN store \ {id} |-> store[j]]
    /\ UNCHANGED <<chainVars, ledgerVars, nonceMutex, pendingTxs, pc, gn,
                   runVars, monVars, retry, callerDone, runs, scanNotFound,
                   sent, hist, mon, prev, calls>>

\* ---------------------------------------------------------- specifications
Shared ==
    \/ GetNonce_Lock(Main)
    \/ GetNonce_PendingNonceAt(Main)
    \/ GetNonce_Compute(Main)
    \/ GetNonce_Store(Main)
    \/ GetNonce_Wait(Main)
    \/ GetTransactionByID
    \/ CreateTransaction_Sign
    \/ CreateTransaction_Persist
    \/ ChainMine
    \/ CancelCaller
    \/ Crash

\* The batch command: ProcessBatchEntry.
Next ==
    \/ StartBatch
    \/ BatchLoop
    \/ ProcessEntryAsync_Register
    \/ ProcessEntryAsync_Broadcast
    \/ ProcessBatchEntry_Context
    \/ MonitorDeadline
    \/ MonitorAllTransactions_Start
    \/ CheckTransactionAndConfirm
    \/ CheckTransactionAndConfirm_Cleanup
    \/ checkPendingTransactions_Delete
    \/ MonitorAllTransactions_Tick
    \/ MonitorAllTransactions_Return
    \/ Shared

Spec == Init /\ [][Next]_vars

\* One call of ProcessBatchEntry in a process that is not stopped, with the
\* scheduling the monitor relies on: the 10 minute timer of its context
\* fires, a pass of checkPendingTransactions over its snapshot goes on to its
\* end, and the select, which picks at random among its ready cases, cannot
\* pick the ticker for ever once ctx.Done() is ready.
StartOnce == runs = 0 /\ StartBatch

checkPendingTransactions_Pass ==
    \/ CheckTransactionAndConfirm
    \/ CheckTransactionAndConfirm_Cleanup
    \/ checkPendingTransactions_Delete

NextLive ==
    \/ StartOnce
    \/ BatchLoop
    \/ GetTransactionByID
    \/ GetNonce_Lock(Main)
    \/ GetNonce_PendingNonceAt(Main)
    \/ GetNonce_Compute(Main)
    \/ GetNonce_Store(Main)
    \/ GetNonce_Wait(Main)
    \/ CreateTransaction_Sign
    \/ CreateTransaction_Persist
    \/ ProcessEntryAsync_Register
    \/ ProcessEntryAsync_Broadcast
    \/ ProcessBatchEntry_Context
    \/ MonitorDeadline
    \/ MonitorAllTransactions_Start
    \/ CheckTransactionAndConfirm
    \/ CheckTransactionAndConfirm_Cleanup
    \/ checkPendingTransactions_Delete
    \/ MonitorAllTransactions_Tick
    \/ MonitorAllTransactions_Return
    \/ ChainMine
    \/ CancelCaller

SpecLive ==
    /\ Init
    /\ [][NextLive]_vars
    /\ WF_vars(MonitorDeadline)
    /\ WF_vars(MonitorAllTransactions_Start)
    /\ WF_vars(checkPendingTransactions_Pass)
    /\ SF_vars(MonitorAllTransactions_Return)

\* A further call of ProcessBatchEntry on the same wallet, after the earlier
\* one returned: the counters, the loop and the monitor's context are new,
\* the wallet's maps (pendingTxs, pendingNonces) and maxLocalNonce are what
\* the earlier call left.  A submission left over from an earlier call
\* belongs to no entry of the new list (i = 0).
ProcessBatchEntry_Again ==
    /\ pc[Main] = "done"
    /\ mode = "batch"
    /\ runs < MaxRuns
    /\ \E l \in EntryLists :
        /\ entries' = l
        /\ hist' = [i \in DOMAIN l |-> NoHist]
    /\ idx' = 1
    /\ cnt' = ZeroCnt
    /\ cur' = NoTx
    /\ snap' = {}
    /\ chk' = NoChk
    /\ monCtx' = "none"
    /\ mon' = NoMon
    /\ callerDone' = FALSE
    /\ pendingTxs' = {[hash |-> p.hash, i |-> 0] : p \in pendingTxs}
    /\ runs' = runs + 1
    /\ pc' = [pc EXCEPT ![Main] = "loop"]
    /\ UNCHANGED <<store, chainVars, ledgerVars, nonceMutex, gn, mode, retry,
                   scanNotFound, faults, sent, prev, calls>>

\* One process that calls ProcessBatchEntry on its wallet several times.
NextRepeat ==
    \/ StartOnce
    \/ ProcessBatchEntry_Again
    \/ BatchLoop
    \/ GetTransactionByID
    \/ GetNonce_Lock(Main)
    \/ GetNonce_PendingNonceAt(Main)
    \/ GetNonce_Compute(Main)
    \/ GetNonce_Store(Main)
    \/ GetNonce_Wait(Main)
    \/ CreateTransaction_Sign
    \/ CreateTransaction_Persist
    \/ ProcessEntryAsync_Register
    \/ ProcessEntryAsync_Broadcast
    \/ ProcessBatchEntry_Context
    \/ MonitorDeadline
    \/ MonitorAllTransactions_Start
    \/ CheckTransactionAndConfirm
    \/ CheckTransactionAndConfirm_Cleanup
    \/ checkPendingTransactions_Delete
    \/ MonitorAllTransactions_Tick
    \/ MonitorAllTransactions_Return
    \/ ChainMine
    \/ CancelCaller

SpecRepeat == Init /\ [][NextRepeat]_vars

\* The batch command run again and again on the same list, each run a new
\* process on the store and the chain the earlier runs left.  Entry i of the
\* list pays the amount i to the valid address.
RerunEntry(i) == [id |-> i, acct |-> 1, to |-> "A",
                  value |-> ((i - 1) % MaxValue) + 1]

RerunLists == {l \in EntryLists : \A k \in DOMAIN l : l[k] = RerunEntry(l[k].id)}

StartRerun ==
    /\ ~Running
    /\ \E l \in RerunLists :
        /\ runs = 0 \/ l = entries
        /\ FreshProcess("batch", l)
    /\ idx' = 1
    /\ pc' = [pc EXCEPT ![Main] = "loop"]
    /\ runs' = IF runs < MaxRuns THEN runs + 1 ELSE runs
    /\ UNCHANGED <<store, chainVars, faults, sent, prev, calls, scanNotFound>>

\* The steps of ProcessBatchEntry that go on by themselves: the calls return
\* and the passes of checkPendingTransactions come to their end.
ProcessBatchEntry_Step ==
    \/ BatchLoop
    \/ GetTransactionByID
    \/ GetNonce_Lock(Main)
    \/ GetNonce_PendingNonceAt(Main)
    \/ GetNonce_Compute(Main)
    \/ GetNonce_Store(Main)
    \/ GetNonce_Wait(Main)
    \/ CreateTransaction_Sign
    \/ CreateTransaction_Persist
    \/ ProcessEntryAsync_Register
    \/ ProcessEntryAsync_Broadcast
    \/ ProcessBatchEntry_Context
    \/ MonitorAllTransactions_Start
    \/ checkPendingTransactions_Pass

NextRerun ==
    \/ StartRerun
    \/ ProcessBatchEntry_Step
    \/ MonitorDeadline
    \/ MonitorAllTransactions_Tick
    \/ MonitorAllTransactions_Return
    \/ ChainMine
    \/ CancelCaller

\* The operator runs the command again whenever it has ended, the process
\* goes on, the 10 minute timer fires and the select of the monitor cannot
\* pick the ticker for ever once ctx.Done() is ready.
SpecRerun ==
    /\ Init
    /\ [][NextRerun]_vars
    /\ WF_vars(StartRerun)
    /\ WF_vars(ProcessBatchEntry_Step)
    /\ WF_vars(MonitorDeadline)
    /\ SF_vars(MonitorAllTransactions_Return)

\* A pass of checkPendingTransactions is under way: the snapshot is taken
\* and not all of its elements have been dealt with.
PassRunning ==
    \/ pc[Main] = "check" /\ snap # {}
    \/ pc[Main] \in {"cleanup", "delete"}

\* Another goroutine's ProcessEntryAsync registers the transaction of a
\* record while the pass runs (the insert under pendingTxMutex.Lock, which
\* the pass does not hold between its snapshot and its deletes).
ProcessEntryAsync_Concurrent ==
    /\ PassRunning
    /\ Cardinality(mon.inserted) < MaxInserts
    /\ \E id \in DOMAIN store :
        /\ pendingTxs' = PendingPut(pendingTxs, store[id].hash, 0)
        /\ mon' = [mon EXCEPT !.inserted = @ \cup {store[id].hash}]
    /\ UNCHANGED <<store, chainVars, ledgerVars, nonceMutex, pc, gn, runVars,
                   monVars, retry, callerDone, runs, scanNotFound, faults,
                   sent, hist, prev, calls>>

\* One batch run whose monitor works while another goroutine registers
\* submissions.
NextTick ==
    \/ NextLive
    \/ ProcessEntryAsync_Concurrent

SpecTick == Init /\ [][NextTick]_vars

\* ----------------------------------------------- WaitForReceipt by itself
\* The node accepts a transaction of the account (its sender then waits for
\* the receipt).
ChainAccept ==
    /\ NetPending < MaxNetNonce
    /\ \A t \in Callers : pc[t] = "idle"
    /\ calls = <<>>
    /\ mempool' = mempool \cup {TxHash(NetPending, "A", 1)}
    /\ UNCHANGED <<store, mined, chainNonce, ledgerVars, nonceMutex,
                   pendingTxs, pc, gn, runVars, monVars, retry, callerDone,
                   runs, scanNotFound, faults, sent, hist, mon, prev, calls>>

\* The hashes a caller may wait for: a transaction the node holds or has
\* mined, or one it has never seen.
WaitHashes ==
    mempool \cup {r.hash : r \in mined} \cup {TxHash(MaxNetNonce, "A", 1)}

\* WaitForReceipt(ctx, txHash) is called: retry := 0.
WaitForReceipt_Call(t) ==
    /\ \A u \in Callers : pc[u] = "idle"
    /\ calls = <<>>
    /\ \E h \in WaitHashes : cur' = h
    /\ retry' = 0
    /\ pc' = [pc EXCEPT ![t] = "wfr_query"]
    /\ UNCHANGED <<store, chainVars, ledgerVars, nonceMutex, pendingTxs, gn,
                   mode, entries, idx, cnt, monVars, callerDone, runs,
                   scanNotFound, faults, sent, hist, mon, prev, calls>>

\* A loop that allows one more query, to compare with RetriesExhausted.
RetriesExhausted_Late(r) == r > ReceiptMaxRetries

\* if retry >= ReceiptMaxRetries
RetriesExhausted(r) == r >= ReceiptMaxRetries

\* receipt, err := w.GetTransactionReceipt(ctx, txHash); on an error
\* retry++ and the test of the bound.  The query fails when there is no
\* receipt, when the context is cancelled, or by a network failure.
WaitForReceipt_Query(t) ==
    /\ pc[t] = "wfr_query"
    /\ \E ok \in BOOLEAN :
        /\ \/ ok /\ HasReceipt(cur) /\ Works
           \/ ~ok /\ ~HasReceipt(cur) /\ UNCHANGED faults
           \/ ~ok /\ HasReceipt(cur) /\ Fails
        /\ calls' = Append(calls, [t |-> t, ok |-> ok, nonce |-> 0,
                                   pending |-> 0])
        /\ IF ok
           THEN /\ pc' = [pc EXCEPT ![t] = "wfr_receipt"]
                /\ UNCHANGED retry
           ELSE /\ retry' = retry + 1
                /\ pc' = [pc EXCEPT ![t] =
                               IF RetriesExhausted(retry + 1)
                               THEN "wfr_timeout" ELSE "wfr_select"]
    /\ UNCHANGED <<store, chainVars, ledgerVars, nonceMutex, pendingTxs, gn,
                   runVars, monVars, callerDone, runs, scanNotFound, sent,
                   hist, mon, prev>>

\* select { case <-ctx.Done(): return nil, ctx.Err();
\*          case <-time.After(10 * time.Second): continue }
WaitForReceipt_Select(t) ==
    /\ pc[t] = "wfr_select"
    /\ pc' = [pc EXCEPT ![t] = IF callerDone THEN "wfr_ctx" ELSE "wfr_query"]
    /\ UNCHANGED <<store, chainVars, ledgerVars, nonceMutex, pendingTxs, gn,
                   runVars, monVars, retry, callerDone, runs, scanNotFound,
                   faults, sent, hist, mon, prev, calls>>

\* One call of WaitForReceipt, the chain and the caller's context going
\* their own way.
NextWait ==
    \/ \E t \in Callers :
        \/ WaitForReceipt_Call(t)
        \/ WaitForReceipt_Query(t)
        \/ WaitForReceipt_Select(t)
    \/ ChainAccept
    \/ ChainMine
    \/ CancelCaller

SpecWait == Init /\ [][NextWait]_vars

\* The batch command on a store that other parties write to.
NextShared ==
    \/ Next
    \/ OtherRunCreate
    \/ StoreRowLost

SpecShared == Init /\ [][NextShared]_vars

\* The per-entry command: ProcessEntry.
NextEntry ==
    \/ StartEntry
    \/ EntryLoop
    \/ ProcessEntry_Broadcast
    \/ WaitForReceipt
    \/ ProcessEntry_CheckLow
    \/ ConfirmTransaction_Update
    \/ ConfirmTransaction_Cleanup
    \/ Shared

SpecEntry == Init /\ [][NextEntry]_vars

\* A caller of SendQuai.
NextSend ==
    \/ StartSend
    \/ SendQuai_Call
    \/ GetNonce_Lock(Main)
    \/ GetNonce_PendingNonceAt(Main)
    \/ GetNonce_Compute(Main)
    \/ GetNonce_Store(Main)
    \/ GetNonce_Wait(Main)
    \/ CreateTransaction_Sign
    \/ SendQuai_Persist
    \/ SendQuai_Broadcast
    \/ SendQuai_WaitForReceipt
    \/ SendQuai_Confirm
    \/ ChainMine
    \/ CancelCaller
    \/ Crash

SpecSend == Init /\ [][NextSend]_vars

\* Concurrent callers of GetNonce on one wallet.
NextCallers ==
    \/ \E t \in Callers :
        \/ CallGetNonce(t)
        \/ GetNonce_Lock(t)
        \/ GetNonce_PendingNonceAt(t)
        \/ GetNonce_Compute(t)
        \/ GetNonce_Store(t)
        \/ GetNonce_Wait(t)
        \/ CallCleanup(t)
    \/ ExternalTx
    \/ CancelCaller

SpecNonce == Init /\ [][NextCallers]_vars

\* The same callers, a release being a call that waits for the mutex.  A
\* GetNonce call that holds the mutex goes on to its return (the node
\* answers, the throttle timer fires), and a goroutine waiting in Lock gets
\* the mutex in the end (sync.Mutex hands over to a starving waiter).
GetNonce_Holding(t) ==
    \/ GetNonce_PendingNonceAt(t)
    \/ GetNonce_Compute(t)
    \/ GetNonce_Store(t)
    \/ GetNonce_Wait(t)

NextCallersLive ==
    \/ \E t \in Callers :
        \/ CallGetNonce(t)
        \/ GetNonce_Lock(t)
        \/ GetNonce_PendingNonceAt(t)
        \/ GetNonce_Compute(t)
        \/ GetNonce_Store(t)
        \/ GetNonce_Wait(t)
        \/ ReleaseRequest(t)
        \/ ReleaseApply(t)
    \/ ExternalTx
    \/ CancelCaller

SpecNonceLive ==
    /\ Init
    /\ [][NextCallersLive]_vars
    /\ \A t \in Callers :
        /\ WF_vars(GetNonce_Holding(t))
        /\ SF_vars(ReleaseApply(t))

\* --------------------------------------------------------------- properties
NumIn(b) == Cardinality({i \in DOMAIN hist : hist[i].bucket = b})

CreatingPositions == {"gn_lock", "gn_pending", "gn_compute", "gn_store",
                      "gn_wait", "sign", "persist"}
SendingPositions == {"register", "broadcast"}
AfterLoop == {"mon_ctx", "mon_start", "check", "cleanup", "delete", "done"}

Differs(e, r) ==
    e.id # r.id \/ e.acct # r.acct \/ e.to # r.to \/ e.value # r.value

\* The lookup of the current entry returned without an I/O failure.
LookupReturned ==
    /\ pc[Main] = "lookup"
    /\ pc'[Main] \in {"loop", "gn_lock", "register", "broadcast"}
    /\ faults' = faults
    /\ ~callerDone

NoEffects ==
    UNCHANGED <<store, sent, mempool, maxLocalNonce, pendingNonces,
                pendingTxs>>

\* C1: over any sequence of batch runs on one store, runs that stop at any
\* point included, at most one distinct transaction hash is ever handed to
\* the chain's sendTransaction for a transfer id.
AtMostOnceSubmission == \A id \in Ids : Cardinality(sent[id]) <= 1

\* A second run hands the stored transaction of an id to the chain again,
\* while the node still holds it from the first run.
AtMostOnceSubmission_Witness ==
    /\ runs = 2
    /\ \E i \in DOMAIN hist :
        /\ hist[i].bres = "known"
        /\ Cardinality(sent[entries[i].id]) = 1

\* C2: after a batch run in which a receipt was found for every entry's
\* transaction, a second ProcessBatchEntry on the identical list allocates
\* no nonce, creates no record, sends nothing, and counts every valid entry
\* as Skipped (an entry whose lookup failed by I/O aside).
IdempotentRerun ==
    (prev.full /\ Running /\ mode = "batch" /\ entries = prev.entries) =>
        /\ pc[Main] \notin CreatingPositions \cup SendingPositions
        /\ \A i \in DOMAIN hist :
            (IsValidQuaiAddress(entries[i].to) /\ hist[i].bucket # "none") =>
                hist[i].bucket = "skipped" \/ hist[i].err = "lookup"

\* C3: the nonces returned by successful GetNonce calls of concurrent
\* callers on one wallet are each at least the pending nonce the call read,
\* and each strictly greater than every nonce returned by a call that
\* completed earlier (so they are pairwise distinct).
NonceDistinctness ==
    \A a, b \in DOMAIN calls :
        /\ calls[a].ok => calls[a].nonce >= calls[a].pending
        /\ (a < b /\ calls[a].ok /\ calls[b].ok) =>
               calls[a].nonce < calls[b].nonce

\* Two callers both got a nonce, the later one after a network answer that
\* was not above the nonce already given out.
NonceDistinctness_Witness ==
    \E a, b \in DOMAIN calls :
        /\ a < b
        /\ calls[a].t # calls[b].t
        /\ calls[a].ok /\ calls[b].ok
        /\ calls[b].pending <= calls[a].nonce

\* C4 (as stated): for every stored record of an id, processing an entry
\* with that id that differs from the stored entry returns the mismatch
\* error and has no effect on chain, ledger, store or pending set.
MismatchDetection_AnyRecord ==
    [][(/\ LookupReturned
        /\ entries[idx].id \in DOMAIN store
        /\ Differs(entries[idx], store[entries[idx].id].entry))
       => (/\ pc'[Main] = "loop"
           /\ hist'[idx].bucket = "failed"
           /\ hist'[idx].err = "mismatch"
           /\ NoEffects)]_vars

\* C4 (amended): the same for every stored record whose status is
\* Generated; a Confirmed record is answered with ErrAlreadyProcessed
\* before the entries are compared.
MismatchDetection ==
    [][(/\ LookupReturned
        /\ entries[idx].id \in DOMAIN store
        /\ store[entries[idx].id].status = Generated
        /\ Differs(entries[idx], store[entries[idx].id].entry))
       => (/\ pc'[Main] = "loop"
           /\ hist'[idx].bucket = "failed"
           /\ hist'[idx].err = "mismatch"
           /\ NoEffects)]_vars

\* An entry was refused as a mismatch against a Generated record.
MismatchDetection_Witness ==
    \E i \in DOMAIN hist :
        /\ hist[i].err = "mismatch"
        /\ entries[i].id \in DOMAIN store
        /\ store[entries[i].id].status = Generated
        /\ store[entries[i].id].entry.value # entries[i].value

\* C5 (as stated): when the monitor's deadline has expired at the moment
\* MonitorAllTransactions starts with k transactions in the pending set, the
\* run reports exactly k Unconfirmed and counts none of them Failed.
DeadlineReport_Exact ==
    (pc[Main] = "done" /\ mon.started /\ mon.expiredAtStart /\ mon.k > 0) =>
        /\ cnt.unprocessed = mon.k
        /\ cnt.failed = mon.failedAtStart

\* C5 (amended): in that case the run reports k minus the number of those
\* transactions whose receipt the monitor found (it checks the pending set
\* once on start whatever the deadline), and counts none of them Failed.
DeadlineReport ==
    (pc[Main] = "done" /\ mon.started /\ mon.expiredAtStart /\ mon.k > 0) =>
        /\ mon.found <= mon.k
        /\ cnt.unprocessed = mon.k - mon.found
        /\ cnt.failed = mon.failedAtStart

\* A run whose monitor started after its deadline with two pending
\* transactions, found the receipt of one and reported the other.
DeadlineReport_Witness ==
    /\ pc[Main] = "done"
    /\ mon.started /\ mon.expiredAtStart
    /\ mon.k = 2
    /\ mon.found = 1
    /\ cnt.unprocessed = 1

\* C6: an entry whose broadcast was answered "nonce too low" is never
\* counted Failed (a failed store update or a cancelled context aside), and
\* if a receipt exists for its hash it is counted Succeeded when its
\* processing returns, not left in the pending set for the monitor.
StaleNonceClassification ==
    \A i \in DOMAIN hist :
        hist[i].bres = "low" =>
            /\ hist[i].bucket = "failed" => hist[i].err \in {"update", "ctx"}
            /\ hist[i].bucket = "queued" =>
                   ~HasReceipt(store[entries[i].id].hash)

ConfirmationTransition ==
    [][/\ \A id \in DOMAIN store :
            /\ id \in DOMAIN store'
            /\ store'[id] # store[id] =>
                  /\ store[id].status = Generated
                  /\ store'[id] = [store[id] EXCEPT !.status = Confirmed]
       /\ (pc[Main] = "check" /\ pc'[Main] = "cleanup") =>
             \A id \in DOMAIN store' :
                 store'[id].hash = chk'.hash => store'[id].status = Confirmed
      ]_vars

\* C9: once the caller's context is cancelled while the monitor waits with
\* transactions pending, the monitor makes no further pass and the run
\* reports the transactions pending at that moment as Unconfirmed.
CancellationPropagation ==
    mon.cancelK > 0 =>
        /\ ~mon.tickAfterCancel
        /\ pc[Main] = "done" => cnt.unprocessed = mon.cancelK

\* C10: after an entry ended in the entry-mismatch error or in a fatal
\* broadcast error the loop goes on with the next entry, and when the loop
\* is over every later entry of the list has been processed.
PerEntryErrorsContinue ==
    \A i \in DOMAIN hist :
        hist[i].err \in {"mismatch", "broadcast"} =>
            /\ pc[Main] \notin {"idle", "exited"}
            /\ idx > i
            /\ pc[Main] \in AfterLoop =>
                  \A j \in DOMAIN hist : j > i => hist[j].bucket # "none"

\* A run ended in which the first entry was refused and the second one was
\* created and broadcast.
PerEntryErrorsContinue_Witness ==
    /\ pc[Main] = "done"
    /\ Len(entries) = 2
    /\ hist[1].err \in {"mismatch", "broadcast"}
    /\ hist[2].bucket \in {"succeeded", "queued"}

\* C11: after the store's lookup or create failed with an I/O error on an
\* entry, the run is aborted: no later entry of the list is looked up, given
\* a nonce, signed, recorded or broadcast, and none gets an outcome.
StorageErrorsAbort ==
    \A i \in DOMAIN hist :
        hist[i].err \in {"lookup", "create"} =>
            /\ \A j \in DOMAIN hist : j > i => hist[j].bucket = "none"
            /\ ~(/\ idx > i
                 /\ pc[Main] \in {"lookup"} \cup CreatingPositions
                                 \cup SendingPositions)

\* C12: an entry whose recipient address is invalid is counted Invalid, has
\* no effect on store, ledger, chain or pending set, and the loop goes on
\* with the next entry.
InvalidRecipient ==
    [][(/\ pc[Main] = "loop"
        /\ ~LoopEnded
        /\ ~IsValidQuaiAddress(entries[idx].to)
        /\ pc'[Main] # "idle"
        /\ pc'[Main] # "loop" \/ idx' # idx)
       => (/\ pc'[Main] = "loop"
           /\ idx' = idx + 1
           /\ cnt'.invalid = cnt.invalid + 1
           /\ hist'[idx].bucket = "invalid"
           /\ NoEffects
           /\ UNCHANGED gn)]_vars

\* C13: the lookup of an id that has no stored record, made without an I/O
\* failure, returns absent and no error: the entry goes on to be given a
\* nonce, signed and recorded.
AbsentLookup ==
    [][(LookupReturned /\ entries[idx].id \notin DOMAIN store)
       => pc'[Main] = "gn_lock"]_vars

\* C14: the store update for a found receipt goes through (so that the
\* nonce is released and the submission leaves the pending set) only if the
\* store holds a record with the transaction's hash; for an unknown hash it
\* fails and the submission stays pending with its nonce live.
MarkConfirmedUnknownHash ==
    [][(pc[Main] = "check" /\ pc'[Main] = "cleanup")
       => \E id \in DOMAIN store : store[id].hash = chk'.hash]_vars

\* C15: when another run has inserted the record of the same never-seen id
\* after this run's lookup returned absent, this run's create is rejected:
\* the other run's record stays the only one, the entry is reported Failed
\* and the transaction this run signed is not handed to the chain.
RacingCreators ==
    [][/\ (/\ pc[Main] = "persist"
           /\ entries[idx].id \in DOMAIN store
           /\ pc'[Main] \notin {"persist", "idle"}
           /\ faults' = faults
           /\ ~callerDone)
          => (/\ pc'[Main] = "loop"
              /\ hist'[idx].bucket = "failed"
              /\ hist'[idx].err = "duplicate"
              /\ cur \notin sent'[entries[idx].id]
              /\ UNCHANGED <<store, sent, mempool, pendingTxs>>)
       /\ \A i \in DOMAIN hist :
             hist[i].err = "duplicate" => hist[i].bres = "none"
      ]_vars

\* A run whose create was rejected because the other run's record of the
\* same id, with another transaction, was already there.
RacingCreators_Witness ==
    \E i \in DOMAIN hist :
        /\ hist[i].err = "duplicate"
        /\ hist[i].bucket = "failed"
        /\ entries[i].id \in DOMAIN store
        /\ store[entries[i].id].entry = entries[i]
        /\ sent[entries[i].id] = {}

\* C16: in one process, over any interleaving of GetNonce calls and
\* releases, maxLocalNonce never decreases, and the nonce a GetNonce call
\* records is not a live one: a nonce given out before can come back only
\* after it was released.
NonceLedgerInvariant ==
    [][/\ maxLocalNonce' >= maxLocalNonce
       /\ \A t \in Threads :
             (pc[t] = "gn_store" /\ pc'[t] = "gn_wait")
                 => gn[t].nonce \notin pendingNonces
       /\ (Len(calls') > Len(calls) /\ calls'[Len(calls')].ok)
             => \A a \in DOMAIN calls :
                    (calls[a].ok /\ calls[a].nonce \in pendingNonces)
                        => calls[a].nonce # calls'[Len(calls')].nonce
      ]_vars

\* A nonce was returned and released, and a later call, told by a lagging
\* node that the released nonce or a lower one is next, returned another.
NonceLedgerInvariant_Witness ==
    \E a, b \in DOMAIN calls :
        /\ a < b
        /\ calls[a].ok /\ calls[b].ok
        /\ calls[a].nonce \notin pendingNonces
        /\ calls[b].pending <= calls[a].nonce
        /\ calls[b].nonce \in pendingNonces
        /\ maxLocalNonce = calls[b].nonce

\* C17: a GetNonce call that reaches its return has computed
\* max(pendingNonce, maxLocalNonce + 1) from the node's answer and from the
\* maxLocalNonce of the start of the call (nobody changes it while the call
\* holds the mutex), and before it returns maxLocalNonce is the result and
\* the result is in pendingNonces.
AllocationResult ==
    [][\A t \in Threads :
        /\ (nonceMutex = t /\ pc[t] \in {"gn_pending", "gn_compute"})
              => maxLocalNonce' = maxLocalNonce
        /\ (pc[t] = "gn_wait" /\ pc'[t] # "gn_wait")
              => /\ \/ gn[t].pending >= gn[t].max + 1 /\ gn[t].nonce = gn[t].pending
                    \/ gn[t].pending < gn[t].max + 1 /\ gn[t].nonce = gn[t].max + 1
                 /\ maxLocalNonce = gn[t].nonce
                 /\ gn[t].nonce \in pendingNonces
                 /\ nonceMutex = t
      ]_vars

\* Both branches of the maximum have been returned: one call got the node's
\* answer, above the local count, and a later one the local count plus one.
AllocationResult_Witness ==
    \E a, b \in DOMAIN calls :
        /\ a < b
        /\ calls[a].ok /\ calls[b].ok
        /\ calls[a].nonce = calls[a].pending
        /\ calls[a].pending > 1
        /\ calls[b].nonce = calls[a].nonce + 1
        /\ calls[b].pending <= calls[a].nonce

\* C18: an entry whose transaction was broadcast and whose wait for the
\* receipt ran out is not counted Failed: the run of WaitForReceipt that
\* gives up after ReceiptMaxRetries queries leaves the failed count as it
\* was and the entry outside the failed bucket.
ReceiptTimeoutNotFailed ==
    [][(/\ pc[Main] = "wait"
        /\ retry' >= ReceiptMaxRetries
        /\ pc'[Main] = "loop")
       => (/\ cnt'.failed = cnt.failed
           /\ hist'[idx].bucket # "failed")]_vars

\* C19: processing an entry whose stored record has status Confirmed ends
\* with ErrAlreadyProcessed (the entry is counted as processed) and changes
\* neither the store, nor maxLocalNonce and pendingNonces, nor the pending
\* set; the node is asked neither for the pending nonce nor to send a
\* transaction.
SkippedNoEffect ==
    [][(/\ LookupReturned
        /\ entries[idx].id \in DOMAIN store
        /\ store[entries[idx].id].status = Confirmed)
       => (/\ pc'[Main] = "loop"
           /\ idx' = idx + 1
           /\ hist'[idx].bucket = "skipped"
           /\ hist'[idx].err = "already"
           /\ hist'[idx].bres = "none"
           /\ cnt'.processed = cnt.processed + 1
           /\ NoEffects
           /\ UNCHANGED <<gn, nonceMutex, chainNonce, mined>>)]_vars

\* A process that has given out no nonce and waits for nothing has skipped
\* an entry whose record is Confirmed.
SkippedNoEffect_Witness ==
    \E i \in DOMAIN hist :
        /\ hist[i].bucket = "skipped"
        /\ hist[i].err = "already"
        /\ store[entries[i].id].status = Confirmed
        /\ maxLocalNonce = 0
        /\ pendingNonces = {}
        /\ pendingTxs = {}

\* C20: when the record of an entry's id has status Generated and its
\* stored entry matches, the lookup hands back the stored transaction and
\* processing goes on to the broadcast without GetNonce, signing or a new
\* record; whatever is handed to SendTransaction for an entry is the
\* transaction of the entry's record, same hash and same nonce.
StoredTransactionReuse ==
    [][/\ (/\ LookupReturned
           /\ entries[idx].id \in DOMAIN store
           /\ store[entries[idx].id].status = Generated
           /\ ~Differs(entries[idx], store[entries[idx].id].entry))
          => (/\ cur' = store[entries[idx].id].hash
              /\ TxNonce(cur') = TxNonce(store[entries[idx].id].hash)
              /\ pc'[Main] \in {"register", "broadcast"}
              /\ UNCHANGED <<store, maxLocalNonce, pendingNonces, gn,
                             nonceMutex, idx>>)
       /\ (pc[Main] \in {"register", "broadcast"})
          => (/\ entries[idx].id \in DOMAIN store
              /\ cur = store[entries[idx].id].hash)
       /\ (sent' # sent)
          => sent' = [sent EXCEPT ![entries[idx].id] =
                          @ \cup {store[entries[idx].id].hash}]
      ]_vars

\* A process that has given out no nonce is about to broadcast the
\* transaction of a record it found in the store.
StoredTransactionReuse_Witness ==
    /\ pc[Main] = "broadcast"
    /\ maxLocalNonce = 0
    /\ pendingNonces = {}
    /\ entries[idx].id \in DOMAIN store
    /\ store[entries[idx].id].status = Generated
    /\ cur = store[entries[idx].id].hash
    /\ store[entries[idx].id].entry = entries[idx]

\* The record of a transaction carries what its receipt says.
StatusWritten(h) ==
    \E id \in DOMAIN store :
        /\ store[id].hash = h
        /\ store[id].status = ReceiptOf(h).status

InMonitor == pc[Main] \in {"check", "cleanup", "delete"}

\* C21: during the monitor, for a pending submission whose receipt is
\* found, the store update comes first, the nonce leaves pendingNonces only
\* after the update went through, and the submission leaves pendingTxs only
\* after both; when the receipt query or the update fails, the submission
\* stays pending and its nonce stays live.
ReceiptHandlingOrder ==
    [][/\ (InMonitor /\ pc'[Main] # "idle" /\ pendingNonces' # pendingNonces)
          => /\ pc[Main] = "cleanup"
             /\ pendingNonces' = pendingNonces \ {TxNonce(chk.hash)}
             /\ HasReceipt(chk.hash)
             /\ StatusWritten(chk.hash)
             /\ chk \in pendingTxs /\ chk \in pendingTxs'
       /\ (InMonitor /\ pc'[Main] # "idle" /\ pendingTxs' # pendingTxs)
          => /\ pc[Main] = "delete"
             /\ pendingTxs' = pendingTxs \ {chk}
             /\ StatusWritten(chk.hash)
             /\ TxNonce(chk.hash) \notin pendingNonces
       /\ (pc[Main] = "check" /\ pc'[Main] = "check" /\ faults' # faults)
          => UNCHANGED <<store, pendingTxs, pendingNonces>>
      ]_vars

\* The monitor has written a successful receipt to the record and released
\* the nonce, and the submission is still in the pending set.
ReceiptHandlingOrder_Witness ==
    /\ pc[Main] = "delete"
    /\ chk \in pendingTxs
    /\ TxNonce(chk.hash) \notin pendingNonces
    /\ \E id \in DOMAIN store :
        store[id].hash = chk.hash /\ store[id].status = Confirmed
    /\ \E q \in pendingTxs : q # chk

\* C22: MonitorAllTransactions, once called, returns; when it returns, the count it reports is the size of the
\* pending set at that moment, it is 0 exactly when the pending set is
\* empty, and it returns with a non-empty pending set only after the
\* deadline of its context has expired.
MonitorTermination ==
    /\ [][(pc[Main] = "check" /\ pc'[Main] = "done")
          => /\ cnt'.unprocessed = Cardinality(pendingTxs)
             /\ (cnt'.unprocessed = 0) <=> (pendingTxs = {})
             /\ pendingTxs # {} => monCtx = "done"
             /\ UNCHANGED pendingTxs]_vars
    /\ (pc[Main] = "mon_start") ~> (pc[Main] = "done")

\* The monitor returned after its deadline with one submission left, having
\* confirmed another one in a pass that began after the deadline.
MonitorTermination_Witness ==
    /\ pc[Main] = "done"
    /\ mon.started /\ ~mon.expiredAtStart
    /\ monCtx = "done"
    /\ mon.k = 2
    /\ mon.found = 1
    /\ cnt.unprocessed = 1
    /\ Cardinality(pendingTxs) = 1

\* C23: when the receipt query for a pending submission fails during a
\* pass of the monitor (the transaction is not mined yet, or the call
\* fails), the submission stays in the pending set, its record and the
\* nonce ledger are left as they are, no count changes, and the next tick
\* takes it into its snapshot again.
NotYetMinedStaysPending ==
    [][/\ (pc[Main] = "check" /\ pc'[Main] = "check" /\ snap' # snap
           /\ snap' \subseteq snap)
          => /\ \A p \in snap \ snap' : p \in pendingTxs'
             /\ UNCHANGED <<store, pendingTxs, pendingNonces, maxLocalNonce,
                            cnt, hist>>
       /\ (pc[Main] = "check" /\ pc'[Main] = "check" /\ snap = {}
           /\ snap' # {})
          => snap' = pendingTxs
      ]_vars

\* After a pass in which no receipt was found a tick has taken a new
\* snapshot: a submission whose query failed is in it again, its record
\* still Generated and its nonce still live.
NotYetMinedStaysPending_Witness ==
    /\ pc[Main] = "check"
    /\ mon.started
    /\ mon.tickAfterCancel
    /\ mon.found = 0
    /\ mined = {}
    /\ \E p \in snap :
        /\ p \in pendingTxs
        /\ TxNonce(p.hash) \in pendingNonces
        /\ \E id \in DOMAIN store :
            store[id].hash = p.hash /\ store[id].status = Generated

\* C24: when the broadcast of a batch entry fails with an error that is
\* neither "nonce too low" nor "already known", the entry is counted
\* Failed, its hash is not in the pending set afterwards, its record stays
\* in the store with status Generated, and the nonce ledger is left as it
\* is (the transaction's nonce, if it was live, stays live).
FatalBroadcastFailure ==
    [][/\ (/\ pc[Main] = "broadcast"
           /\ pc'[Main] = "loop"
           /\ hist'[idx].bres = "fatal")
          => /\ hist'[idx].bucket = "failed"
             /\ cnt'.failed = cnt.failed + 1
             /\ \A p \in pendingTxs' : p.hash # cur
             /\ store' = store
             /\ entries[idx].id \in DOMAIN store
             /\ store[entries[idx].id].hash = cur
             /\ store[entries[idx].id].status = Generated
             /\ UNCHANGED <<pendingNonces, maxLocalNonce>>
       /\ \A i \in DOMAIN hist :
             hist[i].bres = "fatal" => hist[i].bucket = "failed"
      ]_vars

\* An entry for which a nonce was given out and a record created, refused
\* by the node: Failed, not pending, record Generated, nonce live.
FatalBroadcastFailure_Witness ==
    \E i \in DOMAIN hist :
        /\ hist[i].bres = "fatal"
        /\ hist[i].bucket = "failed"
        /\ ~callerDone
        /\ faults = 0
        /\ entries[i].id \in DOMAIN store
        /\ store[entries[i].id].status = Generated
        /\ TxNonce(store[entries[i].id].hash) \in pendingNonces
        /\ \A p \in pendingTxs : p.hash # store[entries[i].id].hash

\* C25: an entry whose broadcast was answered "already known" is not
\* counted Failed for want of a receipt: in the batch run its submission is
\* in the pending set when the monitor starts, and in either command a wait
\* for the receipt that runs out leaves it outside the failed bucket.
AlreadyKnownNotFailed ==
    /\ \A i \in DOMAIN hist :
          (hist[i].bres = "known" /\ hist[i].err \in {"none", "timeout"})
              => hist[i].bucket # "failed"
    /\ (mode = "batch" /\ pc[Main] = "mon_start")
          => \A i \in DOMAIN hist :
                hist[i].bres = "known"
                    => \E p \in pendingTxs : p.i = i

PendingSetLockDiscipline ==
    \A a \in PendingTxAccesses :
        /\ a.op \in {"len", "range"} => a.held \in {"RLock", "Lock"}
        /\ a.op \in {"insert", "delete"} => a.held = "Lock"
        /\ a.op = "receipt" => a.held = "none"

\* C28: GetNonce and cleanupConfirmedNonces use the one mutex of the
\* wallet: a thread between GetNonce's read of maxLocalNonce and its return
\* holds it, so no two allocations overlap, and the ledger changes only by
\* the holder's write or by a release made while nobody is inside an
\* allocation; a release that was called while an allocation waits out its
\* throttle delay is applied in the end.
NonceLedgerMutualExclusion ==
    /\ [][/\ \A t \in Threads :
               pc[t] \in {"gn_pending", "gn_compute", "gn_store", "gn_wait"}
                   => nonceMutex = t
          /\ (pendingNonces' # pendingNonces \/ maxLocalNonce' # maxLocalNonce)
               => \/ /\ nonceMutex \in Threads
                     /\ pc[nonceMutex] = "gn_store"
                     /\ pc'[nonceMutex] = "gn_wait"
                  \/ /\ nonceMutex = Free
                     /\ \A t \in Threads :
                           pc[t] \notin {"gn_pending", "gn_compute",
                                         "gn_store", "gn_wait"}
                     /\ UNCHANGED maxLocalNonce
         ]_vars
    /\ \A t \in Callers :
          (pc[t] = "cl_lock" /\ \E u \in Callers : pc[u] = "gn_wait")
              ~> (pc[t] = "idle")

\* A release is waiting for the mutex while another caller's allocation is
\* in its throttle delay, the nonce to release still live.
NonceLedgerMutualExclusion_Witness ==
    \E t, u \in Callers :
        /\ t # u
        /\ pc[t] = "cl_lock"
        /\ pc[u] = "gn_wait"
        /\ nonceMutex = u
        /\ \E c \in 1..Len(calls) :
            calls[c].t = t /\ calls[c].ok /\ calls[c].nonce \in pendingNonces

\* C29: the entries are processed in input order: when the record of an
\* entry is created, every earlier entry has been dealt with and no later
\* one has been touched; of two records created in this run the one of the
\* earlier entry carries the strictly smaller nonce; and the monitor makes
\* no receipt query before the last entry of the list has been processed.
InputOrderProcessing ==
    [][/\ (/\ pc[Main] = "persist"
           /\ pc'[Main] # "idle"
           /\ hist'[idx].created)
          => /\ entries[idx].id \notin DOMAIN store
             /\ entries[idx].id \in DOMAIN store'
             /\ \A i \in 1..(idx - 1) : hist[i].bucket # "none"
             /\ \A j \in (idx + 1)..Len(entries) :
                   hist[j] = NoHist /\ hist'[j] = NoHist
       /\ \A i, j \in DOMAIN hist :
             (i < j /\ hist[i].created /\ hist[j].created)
                 => TxNonce(store[entries[i].id].hash)
                        < TxNonce(store[entries[j].id].hash)
       /\ (mode = "batch" /\ InMonitor)
             => /\ idx > Len(entries)
                /\ \A i \in DOMAIN hist : hist[i].bucket # "none"
      ]_vars

\* Two records were created in one run, the second after a node answer that
\* was not above the first one's nonce, and the monitor is at work.
InputOrderProcessing_Witness ==
    /\ mode = "batch"
    /\ pc[Main] = "check"
    /\ Len(entries) = 2
    /\ hist[1].created /\ hist[2].created
    /\ TxNonce(store[entries[2].id].hash)
           = TxNonce(store[entries[1].id].hash) + 1
    /\ chainNonce = 0

\* C30: whenever a transaction is handed to SendTransaction, the store
\* already holds a record with that transaction's hash, and an entry whose
\* record creation failed is done with nothing handed to the chain for it.
PersistBeforeBroadcast ==
    [][/\ (sent' # sent /\ pc'[Main] # "idle")
          => /\ pc[Main] = "broadcast"
             /\ \E id \in DOMAIN store : store[id].hash = cur
             /\ sent' = [sent EXCEPT ![entries[idx].id] = @ \cup {cur}]
       /\ (pc[Main] = "persist" /\ pc'[Main] = "loop")
          => /\ hist'[idx].bucket = "failed"
             /\ hist'[idx].err \in {"create", "duplicate"}
             /\ hist'[idx].bres = "none"
             /\ UNCHANGED <<sent, mempool, store>>
       /\ \A i \in DOMAIN hist :
             hist[i].err \in {"create", "duplicate"} => hist[i].bres = "none"
      ]_vars

\* In one run the record creation of one entry was rejected, and another
\* entry's new record was created and its transaction accepted by the node.
PersistBeforeBroadcast_Witness ==
    \E i, j \in DOMAIN hist :
        /\ hist[i].err \in {"create", "duplicate"}
        /\ hist[i].bucket = "failed"
        /\ hist[j].created
        /\ hist[j].bres = "ok"
        /\ \E id \in DOMAIN store : store[id].hash \in sent[entries[j].id]

\* C31: a successful GetNonce on a ledger in its initial state (no nonce was
\* given out in this process: maxLocalNonce is 0 as initClient left it)
\* returns exactly the pending nonce the node reported, 0 included.
FirstAllocation ==
    [][\A t \in Callers :
          (/\ pc[t] = "gn_wait"
           /\ pc'[t] = "idle"
           /\ calls'[Len(calls')].ok
           /\ gn[t].max = 0)
              => calls'[Len(calls')].nonce = gn[t].pending]_vars

\* C32: whenever GetNonce returns an error (the pending-nonce query failed,
\* or the context was cancelled during the throttle wait), maxLocalNonce and
\* pendingNonces are what they were when the call took the mutex: the
\* nonce the call computed has not been recorded.
FailedAllocationNoChange ==
    [][\A t \in Callers :
          (/\ pc[t] \in {"gn_pending", "gn_wait"}
           /\ pc'[t] = "idle"
           /\ ~calls'[Len(calls')].ok)
              => /\ UNCHANGED ledgerVars
                 /\ pc[t] = "gn_wait" =>
                       /\ maxLocalNonce = gn[t].max
                       /\ gn[t].nonce \notin pendingNonces]_vars

\* An entry of the run that failed after GetNonce had given it a nonce: in
\* the gas-price query or the signing, in the record creation, or in the
\* broadcast of the transaction it had just created.
AllocatedThenFailed(i) ==
    /\ hist[i].bucket = "failed"
    /\ \/ hist[i].err \in {"sign", "create", "duplicate"}
       \/ hist[i].err = "broadcast" /\ hist[i].created

\* The nonces carried by the transactions the node has accepted.
AcceptedNonces == 0..(chainNonce - 1) \cup {TxNonce(h) : h \in mempool}

\* C33: within one batch run, after an entry failed once its nonce was
\* allocated, the transaction of the next new entry that the node accepts
\* carries the lowest nonce not yet carried by an accepted transaction, and
\* the nonces of the new transactions accepted in the run leave no gap.
NoNonceGap ==
    [][/\ (/\ pc[Main] = "broadcast"
           /\ mode = "batch"
           /\ pc'[Main] = "loop"
           /\ hist'[idx].bres = "ok"
           /\ hist[idx].created
           /\ \E i \in 1..(idx - 1) : AllocatedThenFailed(i))
          => TxNonce(cur) = NetPending
       /\ \A i, j \in DOMAIN hist :
             (/\ hist[i].created /\ hist[i].bres = "ok"
              /\ hist[j].created /\ hist[j].bres = "ok")
                 => \A n \in TxNonce(store[entries[i].id].hash)
                               ..TxNonce(store[entries[j].id].hash) :
                        n \in AcceptedNonces
      ]_vars

\* C34: over any sequence of batch runs of one payer account, each run with
\* a new in-memory ledger, no two records of the store with different ids
\* carry the same nonce.
UniqueNoncePerRecord ==
    \A a, b \in DOMAIN store :
        a # b => TxNonce(store[a].hash) # TxNonce(store[b].hash)

\* The entries of the current call whose ProcessEntryAsync returned without
\* an error: the ones the call queued.
QueuedByCall == {i \in DOMAIN hist : hist[i].bres \in {"ok", "known", "low"}}

\* C35: for any sequence of ProcessBatchEntry calls on one wallet, the
\* Unprocessed count a call reports is at most the number of entries that
\* call queued, and the Success count it reports is not negative.
RepeatedBatchCalls ==
    (pc[Main] = "done" /\ mode = "batch") =>
        /\ cnt.unprocessed <= Cardinality(QueuedByCall)
        /\ cnt.success >= 0

\* The run that has just ended reported the entry of this id as Failed.
ReportedFailed(id) ==
    /\ pc[Main] = "done"
    /\ \E i \in DOMAIN hist : entries[i].id = id /\ hist[i].bucket = "failed"

\* The run that has just ended counted the entry of this id as a Success.
ReportedSucceeded(id) ==
    /\ pc[Main] = "done"
    /\ \E i \in DOMAIN hist :
        entries[i].id = id /\ hist[i].bucket = "succeeded"

\* C36: under repeated re-runs of the batch, with a chain that in the end
\* mines every transaction it has accepted, every entry whose record has
\* status Generated is in the end Confirmed or reported Failed by a run (or
\* counted as a Success, its receipt found); it is not reported Unprocessed
\* by every run for ever.
NoStuckEntry ==
    ([]<>(mempool = {})) =>
        \A id \in Ids :
            (id \in DOMAIN store /\ store[id].status = Generated)
                ~> \/ id \in DOMAIN store /\ store[id].status = Confirmed
                   \/ ReportedFailed(id)
                   \/ ReportedSucceeded(id)

\* C37: a submission registered while a pass of checkPendingTransactions
\* runs is still in the pending set when the pass is over, unless its own
\* receipt was found and written to the store; a pass takes out of the
\* pending set only the hash whose receipt it has just found and written.
TickKeepsInserts ==
    [][/\ InMonitor =>
             \A p \in pendingTxs :
                 (\A q \in pendingTxs' : q.hash # p.hash)
                     => /\ pc[Main] = "delete"
                        /\ p.hash = chk.hash
                        /\ HasReceipt(p.hash)
                        /\ StatusWritten(p.hash)
       /\ (pc[Main] = "check" /\ snap = {}) =>
             \A h \in mon.inserted :
                 \/ \E p \in pendingTxs : p.hash = h
                 \/ HasReceipt(h) /\ StatusWritten(h)
      ]_vars

\* A pass is over in which the monitor found one receipt and deleted that
\* submission, and a submission without a receipt that was registered
\* during the pass is in the pending set.
TickKeepsInserts_Witness ==
    /\ pc[Main] = "check"
    /\ snap = {}
    /\ mon.found = 1
    /\ \E h \in mon.inserted :
        /\ ~HasReceipt(h)
        /\ \E p \in pendingTxs : p.hash = h

\* The thread that called WaitForReceipt has returned the receipt, the
\* timeout error or the context's error.
Waiter == CHOOSE t \in Callers : \A u \in Callers : pc[u] # "idle" => u = t

AllQueriesFailed == \A c \in DOMAIN calls : ~calls[c].ok

WaitForReceiptQueries ==
    /\ Len(calls) <= ReceiptMaxRetries
    /\ pc[Waiter] = "wfr_receipt" =>
          /\ calls[Len(calls)].ok
          /\ \A c \in 1..(Len(calls) - 1) : ~calls[c].ok
    /\ \A c \in DOMAIN calls : calls[c].ok => c = Len(calls)
    /\ (calls # <<>> /\ calls[Len(calls)].ok) => pc[Waiter] = "wfr_receipt"
    /\ ~callerDone =>
          (pc[Waiter] = "wfr_timeout"
              <=> (Len(calls) = ReceiptMaxRetries /\ AllQueriesFailed))
    /\ pc[Waiter] = "wfr_ctx" => callerDone /\ AllQueriesFailed

\* C38 (as stated): WaitForReceipt makes at most ReceiptMaxRetries receipt
\* queries, returns the receipt at the first query that succeeds and, the
\* context never cancelled, the timeout error exactly when all
\* ReceiptMaxRetries queries failed; once the context is cancelled it makes
\* no query after the current one and what it returns is the context's
\* error.
WaitForReceiptBounded_CtxError ==
    [][/\ WaitForReceiptQueries
       /\ (callerDone /\ pc[Waiter] = "wfr_select" /\ pc' # pc)
             => (pc'[Waiter] = "wfr_ctx" /\ calls' = calls)
       /\ (callerDone /\ pc[Waiter] = "wfr_query" /\ pc' # pc)
             => (pc'[Waiter] = "wfr_select" /\ Len(calls') = Len(calls) + 1)
      ]_vars

\* C38 (amended): the same, but when the query during which the context is
\* cancelled is the last one the bound allows, what it returns is the
\* timeout error.
WaitForReceiptBounded ==
    [][/\ WaitForReceiptQueries
       /\ (callerDone /\ pc[Waiter] = "wfr_select" /\ pc' # pc)
             => (pc'[Waiter] = "wfr_ctx" /\ calls' = calls)
       /\ (callerDone /\ pc[Waiter] = "wfr_query" /\ pc' # pc)
             => /\ Len(calls') = Len(calls) + 1
                /\ IF Len(calls') = ReceiptMaxRetries
                   THEN pc'[Waiter] = "wfr_timeout"
                   ELSE pc'[Waiter] = "wfr_select"
      ]_vars

\* The context was cancelled during the last query the bound allows, and
\* WaitForReceipt returned the timeout error.
WaitForReceiptBounded_Witness ==
    /\ pc[Waiter] = "wfr_timeout"
    /\ callerDone
    /\ Len(calls) = ReceiptMaxRetries
    /\ AllQueriesFailed

====
